---- MODULE Spec2Model ----
(***************************************************************************)
(* Hybrid fraud decision engine of E-Commerce-Fraud-Detector:              *)
(*   backend/utils/xai.py              assemble_decision (score fusion)    *)
(*   backend/rules/rule_engine.py      review_rules, tx_rules              *)
(*   backend/pipelines/*_pipeline.py   engineer_*_features (aggregators)   *)
(*                                                                         *)
(* Numbers.  Python floats are modelled in fixed point.  Scores,           *)
(* thresholds and boosts are integers in units of 10^-(ScoreDecimals+1),   *)
(* one digit finer than the precision the decision record is rounded to,   *)
(* so that rounding is a real conversion.  Fractional feature values       *)
(* (ratios, ratings, z-scores) are integers in units of 1/FeatOne; counts, *)
(* days and hours are plain integers; amounts and amount statistics are    *)
(* integers in units of 1/AmountOne currency units.                        *)
(***************************************************************************)
EXTENDS Integers, Sequences, FiniteSets, TLC

VARIABLES
    ad_in,      \* arguments of the current assemble_decision call
    ad_pc,      \* "ready" before the call, "returned" / "raised" after it
    ad_final,   \* the local final_score of the call (unrounded)
    ad_out,     \* the dict assemble_decision returned
    rl_kind,    \* "review" or "tx": which rule function is running
    rl_features,\* the feature dict the rule function was given
    rl_pc,      \* number of rule blocks of the function already executed
    rl_boost,   \* local boost
    rl_reasons, \* local reasons
    rl_log,     \* the completed calls: kind, features given, boost, reasons
    store,      \* the database: users, reviews, transactions
    now,        \* datetime.utcnow() in hours
    fe_kind,    \* "review" or "tx": which aggregator is called
    fe_payload, \* the event payload
    fe_pc,      \* "ready" before the call, "returned" after it
    fe_out,     \* the feature dict the aggregator returned
    fe_order,   \* the row order of the group_by result the call received
    fe_queries, \* the queries the aggregator issued on the session, in order
    reqs,       \* the requests in flight: the locals of each handler call
    config,     \* module globals of app.py: thresholds and loaded models
    preds       \* prediction columns of the rows the handlers committed

vars == <<ad_in, ad_pc, ad_final, ad_out,
          rl_kind, rl_features, rl_pc, rl_boost, rl_reasons, rl_log,
          store, now, fe_kind, fe_payload, fe_pc, fe_out, fe_order,
          fe_queries, reqs, config, preds>>

ad_vars == <<ad_in, ad_pc, ad_final, ad_out>>
rl_vars ==
    <<rl_kind, rl_features, rl_pc, rl_boost, rl_reasons, rl_log>>
fe_vars ==
    <<store, now, fe_kind, fe_payload, fe_pc, fe_out, fe_order, fe_queries>>
fe_locals == <<fe_kind, fe_payload, fe_pc, fe_out, fe_order, fe_queries>>
api_vars == <<reqs, config, preds>>

(***************************************************************************)
(* Arithmetic helpers (Python builtins)                                    *)
(***************************************************************************)
Min(a, b) == IF a <= b THEN a ELSE b

Max(a, b) == IF a >= b THEN a ELSE b

Abs(a) == IF a < 0 THEN -a ELSE a

\* round(): nearest integer quotient n/d for d > 0, ties to even
RoundHalfEven(n, d) ==
    LET q == n \div d
        r == n % d
    IN  IF 2 * r < d THEN q
        ELSE IF 2 * r > d THEN q + 1
        ELSE IF q % 2 = 0 THEN q ELSE q + 1

\* decimals kept by round(float(x), 4) in the decision record
ScoreDecimals == 4

\* 1.0 in score units
One == 10 ^ (ScoreDecimals + 1)

\* round(x, 4) on a score: the result is a multiple of 10 score units
Round4(x) == RoundHalfEven(x, 10) * 10

\* int(x * 10) / 10 in place of round(x, 1): the percentage truncated
RoundPct_floor(num, den) == (num * 1000) \div den

\* round(p, 1) of the percentage num / den * 100, in tenths of a percent
RoundPct(num, den) == RoundHalfEven(num * 1000, den)

(***************************************************************************)
(* Score fusion: utils/xai.py assemble_decision                            *)
(***************************************************************************)
\* confidence cut-offs on |final_score - threshold|
HighDistance == 2 * (One \div 10)

MediumDistance == One \div 10

\* the upper clamp min(1.0, .) dropped
final_score_of_uncapped(score_model, rule_boost) ==
    Max(0, score_model + rule_boost)

final_score_of(score_model, rule_boost) ==
    Min(One, Max(0, score_model + rule_boost))

\* > in place of >=
is_fraud_of_strict(final_score, threshold) == final_score > threshold

is_fraud_of(final_score, threshold) == final_score >= threshold

\* >= in place of > at the "high" cut-off
confidence_of_inclusive(final_score, threshold) ==
    LET distance_from_threshold == Abs(final_score - threshold)
    IN  IF distance_from_threshold >= HighDistance THEN "high"
        ELSE IF distance_from_threshold > MediumDistance THEN "medium"
        ELSE "low"

confidence_of(final_score, threshold) ==
    LET distance_from_threshold == Abs(final_score - threshold)
    IN  IF distance_from_threshold > HighDistance THEN "high"
        ELSE IF distance_from_threshold > MediumDistance THEN "medium"
        ELSE "low"

assemble_decision(score_model, threshold, rule_boost, rule_reasons) ==
    LET final_score == final_score_of(score_model, rule_boost)
        is_fraud    == is_fraud_of(final_score, threshold)
    IN  [decision           |-> is_fraud,
         confidence         |-> confidence_of(final_score, threshold),
         score_model        |-> Round4(score_model),
         score_rules        |-> Round4(rule_boost),
         score_final        |-> Round4(final_score),
         threshold          |-> threshold,
         reasons            |-> rule_reasons,
         model_contribution |-> IF final_score > 0
                                THEN RoundPct(score_model, final_score)
                                ELSE 1000,
         rules_contribution |-> IF final_score > 0
                                THEN RoundPct(rule_boost, final_score)
                                ELSE 0]

\* Inputs of the fusion step.  The caller passes whatever the model scorer
\* and the configuration produced, so out-of-range values are inputs too.
ModelScores ==
    {0 - (One \div 2), 0, 6, 10000, 39996, 40000, 64994, 90000, One,
     One + 20000}

Thresholds == {0 - 10000, 0, 50000, 65000, One}

RuleBoosts == {0, 10000, 20000, 20006, 25000, 30000, 45000, 123000}

ReasonLists == {<<>>, <<"velocity">>}

NoRecord == [decision |-> FALSE, confidence |-> "none"]

InitFusionIdle ==
    /\ ad_in = [score_model |-> 0, threshold |-> 0, rule_boost |-> 0,
                rule_reasons |-> <<>>]
    /\ ad_pc = "idle"
    /\ ad_final = 0
    /\ ad_out = NoRecord

InitFusion ==
    /\ ad_in \in [score_model : ModelScores, threshold : Thresholds,
                  rule_boost : RuleBoosts, rule_reasons : ReasonLists]
    /\ ad_pc = "ready"
    /\ ad_final = 0
    /\ ad_out = NoRecord

\* One call of assemble_decision.  The function has no raise statement and
\* no validation: every call returns a dict.
AssembleDecision ==
    /\ ad_pc = "ready"
    /\ ad_final' = final_score_of(ad_in.score_model, ad_in.rule_boost)
    /\ ad_out' = assemble_decision(ad_in.score_model, ad_in.threshold,
                                   ad_in.rule_boost, ad_in.rule_reasons)
    /\ ad_pc' = "returned"
    /\ UNCHANGED <<ad_in, rl_vars, fe_vars, api_vars>>

(***************************************************************************)
(* Feature dicts.  A value is tagged with its Python type: Num(n) is an    *)
(* int or float, Str(s) a str, Null is None.                               *)
(***************************************************************************)
Num(n) == [num |-> n]

Str(s) == [str |-> s]

Null == [null |-> TRUE]

IsNumeric(v) == DOMAIN v = {"num"}

IsNull(v) == DOMAIN v = {"null"}

\* 1.0 in the unit of fractional feature values
FeatOne == 10 ^ 4

\* 1.00 currency units in the unit of amounts (hundredths)
AmountOne == 10 ^ 2

\* a boost literal given in hundredths (0.15 is Boost(15)), in score units
Boost(hundredths) == hundredths * (One \div 100)

\* features.get(key, default) read as a number
Get(features, key, default) ==
    IF key \in DOMAIN features THEN features[key].num ELSE default

\* boost = max(boost, inc) in place of boost += inc
FireMax(acc, reason, inc) ==
    [boost |-> IF acc.boost >= inc THEN acc.boost ELSE inc,
     reasons |-> Append(acc.reasons, reason)]

\* reasons.insert(0, reason) in place of reasons.append(reason)
FirePrepend(acc, reason, inc) ==
    [boost |-> acc.boost + inc, reasons |-> <<reason>> \o acc.reasons]

\* reasons.append(reason); boost += inc
Fire(acc, reason, inc) ==
    [boost |-> acc.boost + inc, reasons |-> Append(acc.reasons, reason)]

(***************************************************************************)
(* rules/rule_engine.py review_rules: the i-th rule block applied to the   *)
(* locals (boost, reasons)                                                 *)
(***************************************************************************)
review_rule(i, features, acc) ==
    LET text_len == Get(features, "text_len", 50)
    IN  CASE i = 1 ->
               IF Get(features, "ip_30d_review_count", 0) > 50
               THEN Fire(acc, "Suspicious IP activity (50+ reviews in 30 days)",
                         Boost(15))
               ELSE acc
          [] i = 2 ->
               IF /\ Get(features, "account_age_days", 999) < 7
                  /\ Get(features, "user_30d_review_count", 0) > 5
               THEN Fire(acc, "New account with unusual activity", Boost(20))
               ELSE acc
          [] i = 3 ->
               IF Get(features, "upper_ratio", 0) > 4 * (FeatOne \div 10)
               THEN Fire(acc, "Excessive uppercase usage", Boost(5))
               ELSE acc
          [] i = 4 ->
               IF text_len < 10
               THEN Fire(acc, "Suspiciously short review", Boost(10))
               ELSE IF text_len > 1000
               THEN Fire(acc, "Unusually long review", Boost(5))
               ELSE acc
          [] i = 5 ->
               IF /\ Get(features, "rating", 3 * FeatOne)
                        \in {1 * FeatOne, 5 * FeatOne}
                  /\ text_len < 20
               THEN Fire(acc, "Extreme rating with minimal text", Boost(10))
               ELSE acc
          [] i = 6 ->
               IF Abs(Get(features, "rating_deviation", 0))
                      > 25 * (FeatOne \div 10)
               THEN Fire(acc, "Rating inconsistent with user history",
                         Boost(8))
               ELSE acc
          [] i = 7 ->
               IF Get(features, "device_review_count", 0) > 100
               THEN Fire(acc, "Device used for 100+ reviews", Boost(12))
               ELSE acc

\* number of rule blocks of review_rules
NReviewRules == 7

(***************************************************************************)
(* rules/rule_engine.py tx_rules: the i-th rule block                      *)
(***************************************************************************)
\* if / if in place of if / elif: both tiers fire above 50000
tx_amount_rule_both(amount, acc) ==
    LET a1 == IF amount > 50000 * AmountOne
              THEN [boost |-> acc.boost + 25 * (One \div 100),
                    reasons |-> Append(acc.reasons,
                                       "High-value transaction (>50,000)")]
              ELSE acc
    IN  IF amount > 20000 * AmountOne
        THEN [boost |-> a1.boost + 10 * (One \div 100),
              reasons |-> Append(a1.reasons,
                                 "Elevated transaction amount (>20,000)")]
        ELSE a1

\* >= in place of > at the upper tier
tx_amount_rule_inclusive(amount, acc) ==
    IF amount >= 50000 * AmountOne
    THEN [boost |-> acc.boost + 25 * (One \div 100),
          reasons |-> Append(acc.reasons, "High-value transaction (>50,000)")]
    ELSE IF amount > 20000 * AmountOne
    THEN [boost |-> acc.boost + 10 * (One \div 100),
          reasons |-> Append(acc.reasons,
                             "Elevated transaction amount (>20,000)")]
    ELSE acc

\* Rule 1: the two amount tiers (if / elif)
tx_amount_rule(amount, acc) ==
    IF amount > 50000 * AmountOne
    THEN Fire(acc, "High-value transaction (>50,000)", Boost(25))
    ELSE IF amount > 20000 * AmountOne
    THEN Fire(acc, "Elevated transaction amount (>20,000)", Boost(10))
    ELSE acc

tx_rule(i, features, acc) ==
    LET amount == Get(features, "amount", 0)
    IN  CASE i = 1 -> tx_amount_rule(amount, acc)
          [] i = 2 ->
               IF Get(features, "user_1h_tx", 0) > 5
               THEN Fire(acc, "High transaction velocity (5+ in 1 hour)",
                         Boost(20))
               ELSE acc
          [] i = 3 ->
               IF Get(features, "dev_switch_7d", 0) > 5
               THEN Fire(acc, "Frequent device changes (5+ in 7 days)",
                         Boost(15))
               ELSE acc
          [] i = 4 ->
               IF Get(features, "country_mismatch", 0) = 1
               THEN Fire(acc, "Transaction from unusual location", Boost(15))
               ELSE acc
          [] i = 5 ->
               IF Abs(Get(features, "amount_z", 0)) > 3 * FeatOne
               THEN Fire(acc,
                         "Amount significantly deviates from user pattern",
                         Boost(12))
               ELSE acc
          [] i = 6 ->
               IF /\ Get(features, "is_night_time", 0) = 1
                  /\ amount > 10000 * AmountOne
               THEN Fire(acc, "Large transaction during unusual hours",
                         Boost(8))
               ELSE acc
          [] i = 7 ->
               IF /\ Get(features, "account_age_days", 999) < 30
                  /\ amount > 15000 * AmountOne
               THEN Fire(acc, "New account with large transaction", Boost(18))
               ELSE acc
          [] i = 8 ->
               IF Get(features, "ip_1h_tx", 0) > 10
               THEN Fire(acc, "Multiple transactions from same IP", Boost(10))
               ELSE acc

\* number of rule blocks of tx_rules
NTxRules == 8

NRules(kind) == IF kind = "review" THEN NReviewRules ELSE NTxRules

rule_block(kind, i, features, acc) ==
    IF kind = "review" THEN review_rule(i, features, acc)
    ELSE tx_rule(i, features, acc)

\* boost = 0.0; reasons = []
Acc0 == [boost |-> 0, reasons |-> <<>>]

RECURSIVE run_rules(_, _, _)
run_rules(kind, n, features) ==
    IF n = 0 THEN Acc0
    ELSE rule_block(kind, n, features, run_rules(kind, n - 1, features))

\* the (boost, reasons) tuple review_rules returns
review_rules(features) == run_rules("review", NReviewRules, features)

\* the (boost, reasons) tuple tx_rules returns
tx_rules(features) == run_rules("tx", NTxRules, features)

\* Feature dicts handed to the rule functions: every rule literal is
\* approached from both sides.
ReviewRuleInputs ==
    { [ip_30d_review_count   |-> Num(ip),
       account_age_days      |-> Num(age),
       user_30d_review_count |-> Num(cnt),
       upper_ratio           |-> Num(up),
       text_len              |-> Num(len),
       rating                |-> Num(rt * FeatOne),
       rating_deviation      |-> Num(dv),
       device_review_count   |-> Num(dc)] :
        ip \in {50, 51}, age \in {6, 7}, cnt \in {5, 6},
        up \in {4 * (FeatOne \div 10), 4 * (FeatOne \div 10) + 1},
        len \in {9, 10, 19, 20, 1000, 1001}, rt \in {1, 3, 5},
        dv \in {25 * (FeatOne \div 10), 25 * (FeatOne \div 10) + 1},
        dc \in {100, 101} }

TxRuleInputs ==
    { [amount           |-> Num(am),
       user_1h_tx       |-> Num(v),
       dev_switch_7d    |-> Num(ds),
       country_mismatch |-> Num(cm),
       amount_z         |-> Num(z),
       is_night_time    |-> Num(nt),
       account_age_days |-> Num(age),
       ip_1h_tx         |-> Num(ip)] :
        am \in {a * AmountOne + e :
                     a \in {10000, 15000, 20000, 50000}, e \in {0, 1}},
        v \in {5, 6}, ds \in {5, 6}, cm \in {0, 1},
        z \in {0 - 3 * FeatOne - 1, 0 - 3 * FeatOne, 3 * FeatOne,
               3 * FeatOne + 1},
        nt \in {0, 1}, age \in {29, 30}, ip \in {10, 11} }

InitRulesIdle ==
    /\ rl_kind = "none"
    /\ rl_features = [amount |-> Num(0)]
    /\ rl_pc = 0
    /\ rl_boost = 0
    /\ rl_reasons = <<>>
    /\ rl_log = <<>>

InitRules ==
    /\ \/ rl_kind = "review" /\ rl_features \in ReviewRuleInputs
       \/ rl_kind = "tx" /\ rl_features \in TxRuleInputs
    /\ rl_pc = 0
    /\ rl_boost = Acc0.boost
    /\ rl_reasons = Acc0.reasons
    /\ rl_log = <<>>

\* features.setdefault in place of features.get: the block's defaults are
\* written into the caller's dict
FeaturesAfterBlock_setdefault(kind, i, features) ==
    features @@ [account_age_days |-> Num(999), text_len |-> Num(50)]

\* the caller's dict after rule block i: the blocks only read it, with
\* features.get, and assign or delete no item
FeaturesAfterBlock(kind, i, features) == features

\* The next rule block of the running rule function.
RuleStep ==
    /\ rl_kind \in {"review", "tx"}
    /\ rl_pc < NRules(rl_kind)
    /\ LET acc == rule_block(rl_kind, rl_pc + 1, rl_features,
                             [boost |-> rl_boost, reasons |-> rl_reasons])
       IN  /\ rl_boost' = acc.boost
           /\ rl_reasons' = acc.reasons
    /\ rl_pc' = rl_pc + 1
    /\ rl_features' = FeaturesAfterBlock(rl_kind, rl_pc + 1, rl_features)
    /\ UNCHANGED <<rl_kind, rl_log, ad_vars, fe_vars, api_vars>>

(***************************************************************************)
(* The history store (db/models.py) and event payloads                     *)
(*                                                                         *)
(* Time is in hours.  None stands for Python None / SQL NULL in a text     *)
(* slot; a payload is a function whose DOMAIN is the set of keys the JSON  *)
(* body carries.  An absent or null user_id / review_id reads as 0.        *)
(***************************************************************************)
None == "None"

\* users.created_at IS NULL
NullTime == 0 - 1

\* payload.get(key): None for an absent key
PGet(payload, key, none) ==
    IF key \in DOMAIN payload THEN payload[key] ELSE none

\* `if value:` on a text slot
Truthy(v) == v # None /\ v # ""

\* timedelta(hours=1), timedelta(hours=24), timedelta(days=7), (days=30)
Hours1 == 1

Hours24 == 24

Days7 == 7 * 24

Days30 == 30 * 24

\* one logged session query: table, aggregate and the filtered columns
Query(table, agg, cols) == [table |-> table, agg |-> agg, by |-> cols]

RECURSIVE SumOver(_, _)
\* sum of field f over a set of rows
SumOver(rows, f) ==
    IF rows = {} THEN 0
    ELSE LET r == CHOOSE x \in rows : TRUE
         IN  r[f] + SumOver(rows \ {r}, f)

\* n / d as a fractional feature value (floor)
Ratio(n, d) == (n * FeatOne) \div d

\* account age left at the rule's default when the subject is unknown
account_age_days_unset(db, user_id, t) ==
    LET found == {u \in db.users : u.id = user_id}
    IN  IF found # {} /\ (CHOOSE u \in found : TRUE).created_at # NullTime
        THEN (t - (CHOOSE u \in found : TRUE).created_at) \div 24
        ELSE 999

\* db.query(User).filter(User.id == user_id).first(), then account age:
\* (now - user.created_at).days, 0 without user or creation time
account_age_days(db, user_id, t) ==
    LET found == {u \in db.users : u.id = user_id}
    IN  IF found # {} /\ (CHOOSE u \in found : TRUE).created_at # NullTime
        THEN (t - (CHOOSE u \in found : TRUE).created_at) \div 24
        ELSE 0

(***************************************************************************)
(* pipelines/review_pipeline.py engineer_review_features                   *)
(***************************************************************************)
UpperChars ==
    {"A", "B", "C", "D", "E", "F", "G", "H", "I", "J", "K", "L", "M",
     "N", "O", "P", "Q", "R", "S", "T", "U", "V", "W", "X", "Y", "Z"}

LowerChars ==
    {"a", "b", "c", "d", "e", "f", "g", "h", "i", "j", "k", "l", "m",
     "n", "o", "p", "q", "r", "s", "t", "u", "v", "w", "x", "y", "z"}

DigitChars == {"0", "1", "2", "3", "4", "5", "6", "7", "8", "9"}

\* the characters of '.,!?;:'
PunctChars == {".", ",", "!", "?", ";", ":"}

\* what str.split() splits on
SpaceChars == {" "}

\* \w of the regular expressions
WordChars == UpperChars \cup LowerChars \cup DigitChars \cup {"_"}

\* sum(1 for c in text if c in S)
CountIn(text, S) == Cardinality({i \in 1..Len(text) : text[i] \in S})

WordStarts(text) ==
    {i \in 1..Len(text) :
        text[i] \notin SpaceChars /\ (i = 1 \/ text[i - 1] \in SpaceChars)}

WordEnd(text, i) ==
    CHOOSE j \in i..Len(text) :
        /\ \A k \in i..j : text[k] \notin SpaceChars
        /\ (j = Len(text) \/ text[j + 1] \in SpaceChars)

\* set(text.split())
WordSet(text) == {SubSeq(text, i, WordEnd(text, i)) : i \in WordStarts(text)}

\* the upper-case forms of the letters of the URL pattern
UrlCaseFold ==
    {<<"H", "h">>, <<"T", "t">>, <<"P", "p">>, <<"S", "s">>, <<"W", "w">>}

\* the pattern occurs in text at position i (re.I: in either case)
MatchAt(text, i, pat) ==
    /\ i + Len(pat) - 1 <= Len(text)
    /\ \A k \in 1..Len(pat) :
          \/ text[i + k - 1] = pat[k]
          \/ <<text[i + k - 1], pat[k]>> \in UrlCaseFold

\* re.search(r'http[s]?://|www\.', text, re.I)
has_url(text) ==
    \E i \in 1..Len(text) :
        \/ MatchAt(text, i, <<"h", "t", "t", "p", ":", "/", "/">>)
        \/ MatchAt(text, i, <<"h", "t", "t", "p", "s", ":", "/", "/">>)
        \/ MatchAt(text, i, <<"w", "w", "w", ".">>)

\* \b between positions i - 1 and i of text
WordBoundary(text, i) ==
    LET before == i > 1 /\ text[i - 1] \in WordChars
        after  == i <= Len(text) /\ text[i] \in WordChars
    IN  before # after

EmailLocalChars ==
    UpperChars \cup LowerChars \cup DigitChars \cup {".", "_", "%", "+", "-"}

EmailDomainChars == UpperChars \cup LowerChars \cup DigitChars \cup {".", "-"}

\* the class [A-Z|a-z] (the bar is a member of the class)
EmailTldChars == UpperChars \cup LowerChars \cup {"|"}

\* re.search(r'\b[A-Za-z0-9._%+-]+@[A-Za-z0-9.-]+\.[A-Z|a-z]{2,}\b', text)
has_email(text) ==
    \E at \in {i \in 1..Len(text) : text[i] = "@"} :
        /\ \E s \in 1..(at - 1) :
              /\ WordBoundary(text, s)
              /\ \A k \in s..(at - 1) : text[k] \in EmailLocalChars
        /\ \E dot \in {i \in (at + 2)..Len(text) : text[i] = "."} :
              /\ \A k \in (at + 1)..(dot - 1) : text[k] \in EmailDomainChars
              /\ \E e \in (dot + 2)..Len(text) :
                    /\ \A k \in (dot + 1)..e : text[k] \in EmailTldChars
                    /\ WordBoundary(text, e + 1)

\* len(re.findall(r'(.)\1{2,}', text)): maximal runs of 3 or more equal
\* characters
repeated_chars(text) ==
    Cardinality({i \in 1..Len(text) :
        /\ (i = 1 \/ text[i - 1] # text[i])
        /\ i + 2 <= Len(text)
        /\ text[i + 1] = text[i]
        /\ text[i + 2] = text[i]})

\* text_len counted without the whitespace characters
review_text_features_no_space(payload) ==
    LET text  == PGet(payload, "review_text", <<>>)
        n     == Len(text)
        words == Cardinality(WordStarts(text))
    IN  [review_text       |-> Str(text),
         text_len          |-> Num(n - CountIn(text, SpaceChars)),
         word_count        |-> Num(words),
         upper_ratio       |-> Num(IF n > 0
                                   THEN Ratio(CountIn(text, UpperChars), n)
                                   ELSE 0),
         digit_ratio       |-> Num(IF n > 0
                                   THEN Ratio(CountIn(text, DigitChars), n)
                                   ELSE 0),
         punct_ratio       |-> Num(IF n > 0
                                   THEN Ratio(CountIn(text, PunctChars), n)
                                   ELSE 0),
         exclaim_ratio     |-> Num(IF n > 0
                                   THEN Ratio(CountIn(text, {"!"}), n)
                                   ELSE 0),
         question_ratio    |-> Num(IF n > 0
                                   THEN Ratio(CountIn(text, {"?"}), n)
                                   ELSE 0),
         avg_word_len      |-> Num(IF words > 0
                                   THEN Ratio(n - CountIn(text, SpaceChars),
                                              words)
                                   ELSE 0),
         unique_word_ratio |-> Num(IF words > 0
                                   THEN Ratio(Cardinality(WordSet(text)),
                                              words)
                                   ELSE 0),
         has_url           |-> Num(IF has_url(text) THEN 1 ELSE 0),
         has_email         |-> Num(IF has_email(text) THEN 1 ELSE 0),
         repeated_chars    |-> Num(repeated_chars(text))]

\* lines 27-61: text features, no query
review_text_features(payload) ==
    LET text  == PGet(payload, "review_text", <<>>)
        n     == Len(text)
        words == Cardinality(WordStarts(text))
    IN  [review_text       |-> Str(text),
         text_len          |-> Num(n),
         word_count        |-> Num(words),
         upper_ratio       |-> Num(IF n > 0
                                   THEN Ratio(CountIn(text, UpperChars), n)
                                   ELSE 0),
         digit_ratio       |-> Num(IF n > 0
                                   THEN Ratio(CountIn(text, DigitChars), n)
                                   ELSE 0),
         punct_ratio       |-> Num(IF n > 0
                                   THEN Ratio(CountIn(text, PunctChars), n)
                                   ELSE 0),
         exclaim_ratio     |-> Num(IF n > 0
                                   THEN Ratio(CountIn(text, {"!"}), n)
                                   ELSE 0),
         question_ratio    |-> Num(IF n > 0
                                   THEN Ratio(CountIn(text, {"?"}), n)
                                   ELSE 0),
         avg_word_len      |-> Num(IF words > 0
                                   THEN Ratio(n - CountIn(text, SpaceChars),
                                              words)
                                   ELSE 0),
         unique_word_ratio |-> Num(IF words > 0
                                   THEN Ratio(Cardinality(WordSet(text)),
                                              words)
                                   ELSE 0),
         has_url           |-> Num(IF has_url(text) THEN 1 ELSE 0),
         has_email         |-> Num(IF has_email(text) THEN 1 ELSE 0),
         repeated_chars    |-> Num(repeated_chars(text))]

\* func.avg(Review.rating) over rows: None (0 rows) reads as 0 here, and
\* `if avg` treats an average of 0 the same way
AvgRating(rows) ==
    IF rows = {} THEN 0 ELSE Ratio(SumOver(rows, "rating"), Cardinality(rows))

\* the average taken over all the subject's reviews, the event's own
\* stored row included
review_rating_features_all(payload, db) ==
    LET rating    == PGet(payload, "rating", 3) * FeatOne
        user_id   == PGet(payload, "user_id", 0)
        user_avg  == AvgRating({r \in db.reviews : r.user_id = user_id})
    IN  IF user_id # 0
        THEN [f |-> [rating           |-> Num(rating),
                     rating_deviation |-> Num(IF user_avg # 0
                                              THEN Abs(rating - user_avg)
                                              ELSE 0),
                     user_avg_rating  |-> Num(IF user_avg # 0 THEN user_avg
                                              ELSE rating)],
              q |-> <<Query("reviews", "avg(rating)", {"user_id", "id"})>>]
        ELSE [f |-> [rating           |-> Num(rating),
                     rating_deviation |-> Num(0),
                     user_avg_rating  |-> Num(rating)],
              q |-> <<>>]

\* lines 63-82: rating and the subject's average rating
review_rating_features(payload, db) ==
    LET rating    == PGet(payload, "rating", 3) * FeatOne
        user_id   == PGet(payload, "user_id", 0)
        review_id == PGet(payload, "review_id", 0)
        user_avg  == AvgRating({r \in db.reviews :
                                   r.user_id = user_id /\ r.id # review_id})
    IN  IF user_id # 0
        THEN [f |-> [rating           |-> Num(rating),
                     rating_deviation |-> Num(IF user_avg # 0
                                              THEN Abs(rating - user_avg)
                                              ELSE 0),
                     user_avg_rating  |-> Num(IF user_avg # 0 THEN user_avg
                                              ELSE rating)],
              q |-> <<Query("reviews", "avg(rating)", {"user_id", "id"})>>]
        ELSE [f |-> [rating           |-> Num(rating),
                     rating_deviation |-> Num(0),
                     user_avg_rating  |-> Num(rating)],
              q |-> <<>>]

\* lines 84-95: account age
review_account_age(payload, db, t) ==
    LET user_id == PGet(payload, "user_id", 0)
    IN  IF user_id # 0
        THEN [f |-> [account_age_days |->
                         Num(account_age_days(db, user_id, t))],
              q |-> <<Query("users", "first", {"id"})>>]
        ELSE [f |-> [account_age_days |-> Num(0)], q |-> <<>>]

\* func.count(Review.id) of one subject since t - window
UserReviewCount(db, user_id, t, window) ==
    Cardinality({r \in db.reviews :
                    r.user_id = user_id /\ r.created_at >= t - window})

\* lines 97-116: windowed review counts of the subject
review_behavioral(payload, db, t) ==
    LET user_id == PGet(payload, "user_id", 0)
    IN  IF user_id # 0
        THEN [f |-> [user_30d_review_count |->
                         Num(UserReviewCount(db, user_id, t, Days30)),
                     user_7d_review_count |->
                         Num(UserReviewCount(db, user_id, t, Days7)),
                     user_1h_review_count |->
                         Num(UserReviewCount(db, user_id, t, Hours1))],
              q |-> <<Query("reviews", "count", {"user_id", "created_at"}),
                      Query("reviews", "count", {"user_id", "created_at"}),
                      Query("reviews", "count", {"user_id", "created_at"})>>]
        ELSE [f |-> [user_30d_review_count |-> Num(0),
                     user_7d_review_count  |-> Num(0),
                     user_1h_review_count  |-> Num(0)],
              q |-> <<>>]

\* the IP block without its `if ip:` guard: the queries always run
review_ip_features_unguarded(payload, db, t) ==
    LET ip == PGet(payload, "ip_address", None)
    IN  [f |-> [ip_30d_review_count |->
                    Num(Cardinality({r \in db.reviews :
                            /\ r.ip_address = ip
                            /\ r.created_at >= t - Days30})),
                ip_unique_users |->
                    Num(Cardinality({r.user_id : r \in
                            {x \in db.reviews : x.ip_address = ip}}))],
         q |-> <<Query("reviews", "count", {"ip_address", "created_at"}),
                 Query("reviews", "count(distinct user_id)",
                       {"ip_address"})>>]

\* lines 118-133: IP features
review_ip_features(payload, db, t) ==
    LET ip == PGet(payload, "ip_address", None)
    IN  IF Truthy(ip)
        THEN [f |-> [ip_30d_review_count |->
                         Num(Cardinality({r \in db.reviews :
                                 /\ r.ip_address = ip
                                 /\ r.created_at >= t - Days30})),
                     ip_unique_users |->
                         Num(Cardinality({r.user_id : r \in
                                 {x \in db.reviews : x.ip_address = ip}}))],
              q |-> <<Query("reviews", "count", {"ip_address", "created_at"}),
                      Query("reviews", "count(distinct user_id)",
                            {"ip_address"})>>]
        ELSE [f |-> [ip_30d_review_count |-> Num(0),
                     ip_unique_users     |-> Num(0)],
              q |-> <<>>]

\* lines 135-145: device features
review_device_features(payload, db) ==
    LET device == PGet(payload, "device_fingerprint", None)
    IN  IF Truthy(device)
        THEN [f |-> [device_review_count |->
                         Num(Cardinality({r \in db.reviews :
                                 r.device_fingerprint = device})),
                     device_unique_users |->
                         Num(Cardinality({r.user_id : r \in
                                 {x \in db.reviews :
                                     x.device_fingerprint = device}}))],
              q |-> <<Query("reviews", "count", {"device_fingerprint"}),
                      Query("reviews", "count(distinct user_id)",
                            {"device_fingerprint"})>>]
        ELSE [f |-> [device_review_count |-> Num(0),
                     device_unique_users |-> Num(0)],
              q |-> <<>>]

\* lines 147-160: product features
review_product_features(payload, db) ==
    LET product_id  == PGet(payload, "product_id", None)
        rows        == {r \in db.reviews : r.product_id = product_id}
        product_avg == AvgRating(rows)
    IN  IF Truthy(product_id)
        THEN [f |-> [product_review_count |-> Num(Cardinality(rows)),
                     product_avg_rating |->
                         Num(IF product_avg # 0 THEN product_avg
                             ELSE 3 * FeatOne)],
              q |-> <<Query("reviews", "count", {"product_id"}),
                      Query("reviews", "avg(rating)", {"product_id"})>>]
        ELSE [f |-> [product_review_count |-> Num(0),
                     product_avg_rating   |-> Num(3 * FeatOne)],
              q |-> <<>>]

\* the feature dict engineer_review_features returns and the queries it
\* issued on the session, in order
engineer_review_features(payload, db, t) ==
    LET rt == review_rating_features(payload, db)
        ag == review_account_age(payload, db, t)
        bh == review_behavioral(payload, db, t)
        ip == review_ip_features(payload, db, t)
        dv == review_device_features(payload, db)
        pr == review_product_features(payload, db)
    IN  [features |-> review_text_features(payload) @@ rt.f @@ ag.f @@ bh.f
                      @@ ip.f @@ dv.f @@ pr.f,
         queries  |-> rt.q \o ag.q \o bh.q \o ip.q \o dv.q \o pr.q]

(***************************************************************************)
(* pipelines/tx_pipeline.py engineer_tx_features                           *)
(***************************************************************************)
RECURSIVE ISqrtIn(_, _, _)
\* floor of the square root of x, searched in lo..hi
ISqrtIn(x, lo, hi) ==
    IF lo >= hi THEN lo
    ELSE LET mid == (lo + hi + 1) \div 2
         IN  IF mid * mid <= x THEN ISqrtIn(x, mid, hi)
             ELSE ISqrtIn(x, lo, mid - 1)

ISqrt(x) == ISqrtIn(x, 0, 40000)

\* floor(a * FeatOne / b) without the intermediate product, b > 0
ScaledQuotient(a, b) ==
    (a \div b) * FeatOne + ((a % b) * FeatOne) \div b

RECURSIVE SumSquares(_, _, _)
\* sum over the rows of (n * amount - total)^2
SumSquares(rows, n, total) ==
    IF rows = {} THEN 0
    ELSE LET r == CHOOSE x \in rows : TRUE
         IN  (n * r.amount - total) * (n * r.amount - total)
             + SumSquares(rows \ {r}, n, total)

\* pd.Series(amounts).std(): the sample standard deviation (n - 1)
SampleStd(rows) ==
    LET n == Cardinality(rows)
    IN  ISqrt(SumSquares(rows, n, SumOver(rows, "amount"))
              \div (n * n * (n - 1)))

\* std() > 0: the amounts are not all equal
StdPositive(rows) == \E a, b \in rows : a.amount # b.amount

MaxAmount(rows) ==
    (CHOOSE r \in rows : \A x \in rows : x.amount <= r.amount).amount

MinAmount(rows) ==
    (CHOOSE r \in rows : \A x \in rows : x.amount >= r.amount).amount

\* payload.get(key, default) of a text slot as a feature value
TextFeature(payload, key, default) ==
    LET v == PGet(payload, key, default)
    IN  IF v = None THEN Null ELSE Str(v)

\* lines 25-37: basic and temporal features, no query
tx_basic_features(payload, t) ==
    LET hour == t % 24
    IN  [amount        |-> Num(PGet(payload, "amount", 0)),
         currency      |-> TextFeature(payload, "currency", "INR"),
         channel       |-> TextFeature(payload, "channel", "web"),
         hour_of_day   |-> Num(hour),
         is_night_time |-> Num(IF (hour >= 0 /\ hour < 6) \/ hour >= 22
                               THEN 1 ELSE 0),
         is_weekend    |-> Num(IF (t \div 24) % 7 >= 5 THEN 1 ELSE 0)]

\* the subject's transactions created before now
UserTxsBefore(db, user_id, t) ==
    {x \in db.transactions : x.user_id = user_id /\ x.created_at < t}

\* > in place of >= at the start of the window
UserTxsSince_strict(db, user_id, t, window) ==
    {x \in db.transactions :
        x.user_id = user_id /\ x.created_at > t - window}

\* the subject's transactions since t - window
UserTxsSince(db, user_id, t, window) ==
    {x \in db.transactions : x.user_id = user_id /\ x.created_at >= t - window}

\* lines 39-112: account age, amount statistics, velocity
tx_user_history(payload, db, t) ==
    LET user_id  == PGet(payload, "user_id", 0)
        amount   == PGet(payload, "amount", 0)
        user_txs == UserTxsBefore(db, user_id, t)
        n        == Cardinality(user_txs)
        avg      == SumOver(user_txs, "amount") \div n
        std      == IF n > 1 THEN SampleStd(user_txs) ELSE 0
        std_pos  == n > 1 /\ StdPositive(user_txs)
    IN  IF user_id # 0
        THEN [f |-> [account_age_days |->
                         Num(account_age_days(db, user_id, t)),
                     user_total_txs  |-> Num(n),
                     user_avg_amount |-> Num(IF n > 0 THEN avg ELSE 0),
                     user_max_amount |->
                         Num(IF n > 0 THEN MaxAmount(user_txs) ELSE 0),
                     user_min_amount |->
                         Num(IF n > 0 THEN MinAmount(user_txs) ELSE 0),
                     user_std_amount |-> Num(IF n > 0 THEN std ELSE 0),
                     amount_z |->
                         Num(IF n > 0 /\ std_pos
                             THEN ScaledQuotient(amount - avg, Max(std, 1))
                             ELSE 0),
                     user_1h_tx |->
                         Num(Cardinality(UserTxsSince(db, user_id, t, Hours1))),
                     user_24h_tx |->
                         Num(Cardinality(UserTxsSince(db, user_id, t, Hours24))),
                     user_7d_tx |->
                         Num(Cardinality(UserTxsSince(db, user_id, t, Days7))),
                     user_24h_amount |->
                         Num(SumOver(UserTxsSince(db, user_id, t, Hours24),
                                     "amount"))],
              q |-> <<Query("users", "first", {"id"}),
                      Query("transactions", "all(amount)",
                            {"user_id", "created_at"}),
                      Query("transactions", "count",
                            {"user_id", "created_at"}),
                      Query("transactions", "count",
                            {"user_id", "created_at"}),
                      Query("transactions", "count",
                            {"user_id", "created_at"}),
                      Query("transactions", "sum(amount)",
                            {"user_id", "created_at"})>>]
        ELSE [f |-> [account_age_days |-> Num(0),
                     user_total_txs   |-> Num(0),
                     user_avg_amount  |-> Num(0),
                     user_max_amount  |-> Num(0),
                     user_min_amount  |-> Num(0),
                     user_std_amount  |-> Num(0),
                     amount_z         |-> Num(0),
                     user_1h_tx       |-> Num(0),
                     user_24h_tx      |-> Num(0),
                     user_7d_tx       |-> Num(0),
                     user_24h_amount  |-> Num(0)],
              q |-> <<>>]

\* lines 114-131: IP features
tx_ip_features(payload, db, t) ==
    LET ip == PGet(payload, "ip_address", None)
    IN  IF Truthy(ip)
        THEN [f |-> [ip_1h_tx |->
                         Num(Cardinality({x \in db.transactions :
                                 /\ x.ip_address = ip
                                 /\ x.created_at >= t - Hours1})),
                     ip_unique_users |->
                         Num(Cardinality({x.user_id : x \in
                                 {y \in db.transactions :
                                     y.ip_address = ip}}))],
              q |-> <<Query("transactions", "count",
                            {"ip_address", "created_at"}),
                      Query("transactions", "count(distinct user_id)",
                            {"ip_address"})>>]
        ELSE [f |-> [ip_1h_tx |-> Num(0), ip_unique_users |-> Num(0)],
              q |-> <<>>]

\* the device block with the else branch left without its assignment
tx_device_features_no_default(payload, db, t) ==
    LET user_id == PGet(payload, "user_id", 0)
        device  == PGet(payload, "device_fingerprint", None)
        unique_devices ==
            Cardinality({x.device_fingerprint :
                            x \in UserTxsSince(db, user_id, t, Days7)}
                        \ {None})
    IN  IF Truthy(device) /\ user_id # 0
        THEN [f |-> [dev_switch_7d |->
                         Num((IF unique_devices # 0 THEN unique_devices
                              ELSE 1) - 1)],
              q |-> <<Query("transactions",
                            "count(distinct device_fingerprint)",
                            {"user_id", "created_at"})>>]
        ELSE [f |-> <<>>, q |-> <<>>]

\* lines 133-141: device switches; COUNT(DISTINCT) skips NULL
tx_device_features(payload, db, t) ==
    LET user_id == PGet(payload, "user_id", 0)
        device  == PGet(payload, "device_fingerprint", None)
        unique_devices ==
            Cardinality({x.device_fingerprint :
                            x \in UserTxsSince(db, user_id, t, Days7)}
                        \ {None})
    IN  IF Truthy(device) /\ user_id # 0
        THEN [f |-> [dev_switch_7d |->
                         Num((IF unique_devices # 0 THEN unique_devices
                              ELSE 1) - 1)],
              q |-> <<Query("transactions",
                            "count(distinct device_fingerprint)",
                            {"user_id", "created_at"})>>]
        ELSE [f |-> [dev_switch_7d |-> Num(0)], q |-> <<>>]

\* .limit(10) of the rolling window
RollingLimit == 10

\* order_by(created_at.desc()).limit(k)
MostRecent(rows, k) ==
    IF Cardinality(rows) <= k THEN rows
    ELSE CHOOSE S \in SUBSET rows :
             /\ Cardinality(S) = k
             /\ \A a \in S, b \in rows \ S : a.created_at >= b.created_at

\* lines 143-161: rolling statistics over the most recent transactions
tx_rolling_features(payload, db, t, user_total_txs) ==
    LET user_id    == PGet(payload, "user_id", 0)
        amount     == PGet(payload, "amount", 0)
        recent_txs == MostRecent(UserTxsBefore(db, user_id, t), RollingLimit)
        n          == Cardinality(recent_txs)
    IN  IF user_id # 0 /\ user_total_txs > 3
        THEN [f |-> IF n > 0
                    THEN [rolling_mean_diff |->
                              Num(amount
                                  - SumOver(recent_txs, "amount") \div n),
                          rolling_std |->
                              Num(IF n > 1 THEN SampleStd(recent_txs) ELSE 0)]
                    ELSE [rolling_mean_diff |-> Num(0),
                          rolling_std |-> Num(0)],
              q |-> <<Query("transactions", "all(amount)",
                            {"user_id", "created_at"})>>]
        ELSE [f |-> [rolling_mean_diff |-> Num(0), rolling_std |-> Num(0)],
              q |-> <<>>]

\* the channels of the subject's stored transactions: the group_by keys
UserChannels(db, user_id) ==
    {x.channel : x \in {y \in db.transactions : y.user_id = user_id}}

\* the orders in which the group_by query may return its rows
GroupOrders(db, user_id) ==
    LET keys == UserChannels(db, user_id)
    IN  {o \in [1..Cardinality(keys) -> keys] :
            \A i, j \in DOMAIN o : i # j => o[i] # o[j]}

ChannelCount(db, user_id, channel) ==
    Cardinality({x \in db.transactions :
                    x.user_id = user_id /\ x.channel = channel})

\* max(channel_counts, key=lambda x: x[1])[0]: the first row, in the order
\* the rows came back, whose count is the largest
MostCommonChannel(db, user_id, order) ==
    LET first == CHOOSE i \in DOMAIN order :
                    /\ \A j \in DOMAIN order :
                          ChannelCount(db, user_id, order[j])
                              <= ChannelCount(db, user_id, order[i])
                    /\ \A j \in 1..(i - 1) :
                          ChannelCount(db, user_id, order[j])
                              < ChannelCount(db, user_id, order[i])
    IN  order[first]

\* lines 163-182: channel features
tx_channel_features(payload, db, order) ==
    LET user_id == PGet(payload, "user_id", 0)
        channel == PGet(payload, "channel", "web")
    IN  IF user_id # 0
        THEN [f |-> IF UserChannels(db, user_id) # {}
                    THEN [channel_mismatch |->
                              Num(IF channel
                                      # MostCommonChannel(db, user_id, order)
                                  THEN 1 ELSE 0),
                          channel_freq |->
                              Num(ChannelCount(db, user_id, channel))]
                    ELSE [channel_mismatch |-> Num(0),
                          channel_freq |-> Num(0)],
              q |-> <<Query("transactions", "group_by(channel) count",
                            {"user_id"})>>]
        ELSE [f |-> [channel_mismatch |-> Num(0), channel_freq |-> Num(0)],
              q |-> <<>>]

\* the feature dict engineer_tx_features returns and the queries it issued;
\* order is the row order of the group_by result
\* a geo block that compares the event's address with the stored ones
tx_geo_features_lookup(payload, db) ==
    [country_mismatch |->
        Num(IF /\ "ip_address" \in DOMAIN payload
               /\ \E x \in db.transactions :
                      x.ip_address = payload.ip_address
            THEN 1 ELSE 0)]

\* lines 184-186: the geo feature is a placeholder, always 0
tx_geo_features(payload, db) == [country_mismatch |-> Num(0)]

engineer_tx_features(payload, db, t, order) ==
    LET uh == tx_user_history(payload, db, t)
        ip == tx_ip_features(payload, db, t)
        dv == tx_device_features(payload, db, t)
        ro == tx_rolling_features(payload, db, t, uh.f.user_total_txs.num)
        ch == tx_channel_features(payload, db, order)
    IN  [features |-> tx_basic_features(payload, t) @@ uh.f @@ ip.f @@ dv.f
                      @@ ro.f @@ ch.f
                      @@ tx_geo_features(payload, db),
         queries  |-> uh.q \o ip.q \o dv.q \o ro.q \o ch.q]

(***************************************************************************)
(* FEATURE AGGREGATORS                                                     *)
(***************************************************************************)
\* an optional key of a payload
Opt(key, value, present) == IF present THEN (key :> value) ELSE <<>>

\* the users table: 1 is 4 days old at DayTime, 2 is old, 3 has no
\* creation time; no other id has a record
SeedUsers ==
    {[id |-> 1, created_at |-> 1900],
     [id |-> 2, created_at |-> 100],
     [id |-> 3, created_at |-> NullTime]}

\* evaluation times: 18:00 and 23:00 of the same day
DayTime == 2010

NightTime == 2015

\* the reviews table over time, as rows in the order they were committed
ReviewHistory ==
    << [id |-> 4, user_id |-> 1, product_id |-> None, rating |-> 2,
        ip_address |-> "10.0.0.2", device_fingerprint |-> "dev2",
        created_at |-> 1010],
       [id |-> 3, user_id |-> 2, product_id |-> "P1", rating |-> 4,
        ip_address |-> "10.0.0.1", device_fingerprint |-> "dev1",
        created_at |-> 1410],
       [id |-> 2, user_id |-> 1, product_id |-> "P2", rating |-> 1,
        ip_address |-> None, device_fingerprint |-> None,
        created_at |-> 1910],
       [id |-> 1, user_id |-> 1, product_id |-> "P1", rating |-> 5,
        ip_address |-> "10.0.0.1", device_fingerprint |-> "dev1",
        created_at |-> 2010] >>

\* the transactions table over time
TxHistory ==
    << [id |-> 5, user_id |-> 1, amount |-> 30 * AmountOne,
        channel |-> "app", ip_address |-> "10.0.0.2",
        device_fingerprint |-> "dev1", created_at |-> 1510],
       [id |-> 3, user_id |-> 1, amount |-> 10 * AmountOne,
        channel |-> "web", ip_address |-> None,
        device_fingerprint |-> None, created_at |-> 1910],
       [id |-> 2, user_id |-> 1, amount |-> 30 * AmountOne,
        channel |-> "app", ip_address |-> "10.0.0.1",
        device_fingerprint |-> "dev2", created_at |-> 1990],
       [id |-> 1, user_id |-> 1, amount |-> 10 * AmountOne,
        channel |-> "web", ip_address |-> "10.0.0.1",
        device_fingerprint |-> "dev1", created_at |-> 2009],
       [id |-> 4, user_id |-> 2, amount |-> 30 * AmountOne,
        channel |-> "web", ip_address |-> "10.0.0.1",
        device_fingerprint |-> "dev1", created_at |-> 2009],
       [id |-> 6, user_id |-> 1, amount |-> 10 * AmountOne,
        channel |-> None, ip_address |-> None,
        device_fingerprint |-> "dev3", created_at |-> 2010] >>

\* the first k rows of a history
Prefix(history, k) == {history[i] : i \in 1..k}

\* review texts, as character sequences
ReviewTexts ==
    { <<>>,
      <<"A", "M", "A", "Z", "I", "N", "G", "!", "!", "!", " ", "B", "E",
        "S", "T", " ", "P", "R", "O", "D", "U", "C", "T", " ", "E", "V",
        "E", "R", "!", "!", "!">>,
      <<"G", "o", "o", "d", " ", "b", "u", "y">>,
      <<"s", "e", "e", " ", "w", "w", "w", ".", "x", ".", "i", "o", " ",
        "1", "1", "1">>,
      <<"m", "a", "i", "l", " ", "a", "@", "b", ".", "c", "o", " ", "n",
        "o", "w", "?", "?">> }

\* subject ids of events: 1 and 3 have a user record (3 without creation
\* time), 4 has none
EventUserIds == {1, 3, 4}

ReviewPayloads ==
    { [review_text |-> text]
      @@ Opt("user_id", uid, uid # 0)
      @@ Opt("rating", 5, hasRating)
      @@ Opt("ip_address", "10.0.0.1", hasIp)
      @@ Opt("device_fingerprint", "dev1", hasDev)
      @@ Opt("product_id", "P1", hasProd)
      @@ Opt("review_id", 1, hasId) :
        text \in ReviewTexts, uid \in EventUserIds \cup {0},
        hasRating \in BOOLEAN, hasIp \in BOOLEAN, hasDev \in BOOLEAN,
        hasProd \in BOOLEAN, hasId \in BOOLEAN }

TxPayloads ==
    { [amount |-> am]
      @@ Opt("user_id", uid, uid # 0)
      @@ Opt("currency", cur, cur # "absent")
      @@ Opt("channel", ch, ch # "absent")
      @@ Opt("ip_address", "10.0.0.1", hasIp)
      @@ Opt("device_fingerprint", "dev1", hasDev) :
        am \in {50 * AmountOne, 75000 * AmountOne},
        uid \in EventUserIds \cup {0},
        cur \in {"absent", None, "USD"}, ch \in {"absent", None, "app"},
        hasIp \in BOOLEAN, hasDev \in BOOLEAN }

NoFeatures == [amount |-> Num(0)]

InitFeaturesIdle ==
    /\ store = [users |-> {}, reviews |-> {}, transactions |-> {}]
    /\ now = 0
    /\ fe_kind = "none"
    /\ fe_payload = [user_id |-> 0]
    /\ fe_pc = "idle"
    /\ fe_out = NoFeatures
    /\ fe_order = <<>>
    /\ fe_queries = <<>>

\* One event arrives at some point of the store's history.
InitFeatures ==
    /\ now \in {DayTime, NightTime}
    /\ \/ /\ fe_kind = "review"
          /\ fe_payload \in ReviewPayloads
          /\ \E k \in 0..Len(ReviewHistory) :
                store = [users |-> SeedUsers,
                         reviews |-> Prefix(ReviewHistory, k),
                         transactions |-> Prefix(TxHistory, Len(TxHistory))]
       \/ /\ fe_kind = "tx"
          /\ fe_payload \in TxPayloads
          /\ \E k \in 0..Len(TxHistory) :
                store = [users |-> SeedUsers,
                         reviews |-> Prefix(ReviewHistory, Len(ReviewHistory)),
                         transactions |-> Prefix(TxHistory, k)]
    /\ fe_pc = "ready"
    /\ fe_out = NoFeatures
    /\ fe_order = <<>>
    /\ fe_queries = <<>>

\* features = engineer_review_features(payload, db)
EngineerReviewFeatures ==
    /\ fe_kind = "review"
    /\ fe_pc = "ready"
    /\ LET r == engineer_review_features(fe_payload, store, now)
       IN  /\ fe_out' = r.features
           /\ fe_queries' = r.queries
    /\ fe_pc' = "returned"
    /\ UNCHANGED <<store, now, fe_kind, fe_payload, fe_order, ad_vars,
                   rl_vars, api_vars>>

\* features = engineer_tx_features(payload, db); the database returns the
\* rows of the group_by query in an order of its choosing
EngineerTxFeatures ==
    /\ fe_kind = "tx"
    /\ fe_pc = "ready"
    /\ \E order \in GroupOrders(store, PGet(fe_payload, "user_id", 0)) :
          LET r == engineer_tx_features(fe_payload, store, now, order)
          IN  /\ fe_out' = r.features
              /\ fe_queries' = r.queries
              /\ fe_order' = order
    /\ fe_pc' = "returned"
    /\ UNCHANGED <<store, now, fe_kind, fe_payload, ad_vars, rl_vars,
                   api_vars>>

(***************************************************************************)
(* SCORING: the rule function, then assemble_decision, as the prediction   *)
(* handlers chain them (app.py 264-267, 343-346)                           *)
(***************************************************************************)
\* REVIEW_THR and TX_THR as configured by default
REVIEW_THR == 65 * (One \div 100)

TX_THR == 50 * (One \div 100)

Threshold(kind) == IF kind = "review" THEN REVIEW_THR ELSE TX_THR

\* the probabilities the model returns here
ModelProbas == {10 * (One \div 100), 40 * (One \div 100), 90 * (One \div 100)}

ShoutingText == CHOOSE text \in ReviewTexts : Len(text) = 31

QuestionText == CHOOSE text \in ReviewTexts : Len(text) = 17

\* review feature dicts as a caller hands them over: the text features of
\* a text and the rating, account age and 30-day count given with it
ReviewScoreInputs ==
    { review_text_features([review_text |-> text])
      @@ [rating |-> Num(5 * FeatOne),
          account_age_days |-> Num(age),
          user_30d_review_count |-> Num(cnt)] :
        text \in {ShoutingText, QuestionText}, age \in {2, 7},
        cnt \in {5, 9} }

\* six transactions of subject uid of equal amount within the hour before t
BurstTxs(uid, t) ==
    { [id |-> 10 * uid + k, user_id |-> uid, amount |-> 75000 * AmountOne,
       channel |-> "web", ip_address |-> None, device_fingerprint |-> None,
       created_at |-> t - 1] : k \in 1..6 }

BurstStore(t) ==
    [users |-> SeedUsers, reviews |-> {},
     transactions |-> BurstTxs(2, t) \cup BurstTxs(3, t)]

\* transaction feature dicts: the two-key dicts of a caller, and the dicts
\* engineer_tx_features returns for an event of 75000 of a subject with six
\* transactions in the last hour (subject 2 has an old account, the record
\* of subject 3 has no creation time)
TxScoreInputs ==
    { [amount |-> Num(am * AmountOne), user_1h_tx |-> Num(v)] :
        am \in {20000, 75000}, v \in {5, 6} }
    \cup
    { engineer_tx_features([amount |-> 75000 * AmountOne, user_id |-> uid],
                           BurstStore(t), t, <<"web">>).features :
        uid \in {2, 3}, t \in {DayTime, NightTime} }

InitScore ==
    /\ \/ rl_kind = "review" /\ rl_features \in ReviewScoreInputs
       \/ rl_kind = "tx" /\ rl_features \in TxScoreInputs
    /\ rl_pc = 0
    /\ rl_boost = Acc0.boost
    /\ rl_reasons = Acc0.reasons
    /\ rl_log = <<>>

\* decision = assemble_decision(proba, THR, boost, reasons) is called with
\* what the rule function returned
ScoreHandOff ==
    /\ rl_kind \in {"review", "tx"}
    /\ rl_pc = NRules(rl_kind)
    /\ ad_pc = "idle"
    /\ \E proba \in ModelProbas :
          ad_in' = [score_model |-> proba, threshold |-> Threshold(rl_kind),
                    rule_boost |-> rl_boost, rule_reasons |-> rl_reasons]
    /\ ad_pc' = "ready"
    /\ UNCHANGED <<ad_final, ad_out, rl_vars, fe_vars, api_vars>>

\* the number of calls of a rule function followed here
MaxCalls == 3

\* the rule function returns (boost, reasons); the caller calls it again,
\* on the same dict or on another one
RuleReturn ==
    /\ rl_kind \in {"review", "tx"}
    /\ rl_pc = NRules(rl_kind)
    /\ Len(rl_log) < MaxCalls
    /\ rl_log' = Append(rl_log, [kind |-> rl_kind, features |-> rl_features,
                                 boost |-> rl_boost, reasons |-> rl_reasons])
    /\ \/ UNCHANGED <<rl_kind, rl_features>>
       \/ /\ rl_kind' = "review"
          /\ rl_features' \in
                {f \in ReviewScoreInputs :
                    /\ f.account_age_days = Num(2)
                    /\ f.user_30d_review_count = Num(9)}
       \/ /\ rl_kind' = "tx"
          /\ rl_features' \in
                {f \in TxScoreInputs :
                    /\ DOMAIN f = {"amount", "user_1h_tx"}
                    /\ f.user_1h_tx = Num(6)}
    /\ rl_pc' = 0
    /\ rl_boost' = Acc0.boost
    /\ rl_reasons' = Acc0.reasons
    /\ UNCHANGED <<ad_vars, fe_vars, api_vars>>

(***************************************************************************)
(* PREDICTION HANDLERS: predict_review and predict_transaction behind      *)
(* require_token, several requests in flight on one store                  *)
(***************************************************************************)
\* the number of requests in flight
NReq == 2

Requests == 1..NReq

\* features = {}
EmptyDict == [k \in {} |-> Num(0)]

\* required = [...] of the two handlers
RequiredFields(kind) ==
    IF kind = "review" THEN {"user_id", "review_text", "rating"}
    ELSE {"user_id", "amount"}

\* the check of the required fields left out
missing_fields_none(kind, payload) == {}

\* missing = [f for f in required if f not in payload]
missing_fields(kind, payload) == RequiredFields(kind) \ DOMAIN payload

\* os.getenv("API_TOKEN", "devtoken"), os.getenv("JWT_SECRET", ...)
API_TOKEN == "devtoken"

JWT_SECRET == "change_me_in_production"

\* a JWT: the secret it was signed with and its exp claim (NullTime: none)
Token(secret, exp) == [wellformed |-> TRUE, secret |-> secret, exp |-> exp]

\* a string that is not a JWT
Garbage == [wellformed |-> FALSE, secret |-> "", exp |-> NullTime]

\* decode_token: jwt.decode checks the signature, then the exp claim
decode_token(token, t) ==
    IF ~token.wellformed \/ token.secret # JWT_SECRET THEN "Invalid token"
    ELSE IF token.exp # NullTime /\ token.exp <= t THEN "Token expired"
    ELSE "ok"

\* the request headers require_token reads: X-API-Key (None when absent)
\* and Authorization split at the spaces (<<>> when absent or empty)
Headers(x_api_key, authorization) ==
    [x_api_key |-> x_api_key, authorization |-> authorization]

\* any Bearer token is let through undecoded
require_token_undecoded(headers, t) ==
    IF headers.x_api_key = API_TOKEN THEN [pass |-> TRUE, status |-> 0]
    ELSE IF Len(headers.authorization) >= 2
            /\ headers.authorization[1] = "Bearer"
    THEN [pass |-> TRUE, status |-> 0]
    ELSE [pass |-> FALSE, status |-> 401]

\* require_token: the wrapped handler is called (pass) or 401 is returned
require_token(headers, t) ==
    IF headers.x_api_key = API_TOKEN THEN [pass |-> TRUE, status |-> 0]
    ELSE IF Len(headers.authorization) >= 2
            /\ headers.authorization[1] = "Bearer"
    THEN IF decode_token(headers.authorization[2], t) = "ok"
         THEN [pass |-> TRUE, status |-> 0]
         ELSE [pass |-> FALSE, status |-> 401]
    ELSE [pass |-> FALSE, status |-> 401]

\* require_token lets the call through: the X-API-Key equals API_TOKEN, or
\* the Bearer token decodes
Authorized(cred) == require_token(cred, now).pass

\* the sections of the two aggregators, in the order of the code; each
\* returns the items it assigns and the queries it issues
NSections(kind) == IF kind = "review" THEN 7 ELSE 6

review_section(i, payload, db, t) ==
    CASE i = 1 -> [f |-> review_text_features(payload), q |-> <<>>]
      [] i = 2 -> review_rating_features(payload, db)
      [] i = 3 -> review_account_age(payload, db, t)
      [] i = 4 -> review_behavioral(payload, db, t)
      [] i = 5 -> review_ip_features(payload, db, t)
      [] i = 6 -> review_device_features(payload, db)
      [] i = 7 -> review_product_features(payload, db)

tx_section(i, payload, db, t, order, features) ==
    CASE i = 1 -> [f |-> tx_basic_features(payload, t), q |-> <<>>]
      [] i = 2 -> tx_user_history(payload, db, t)
      [] i = 3 -> tx_ip_features(payload, db, t)
      [] i = 4 -> tx_device_features(payload, db, t)
      [] i = 5 -> tx_rolling_features(payload, db, t,
                                      features.user_total_txs.num)
      [] i = 6 -> LET ch == tx_channel_features(payload, db, order)
                  IN  [f |-> ch.f @@ tx_geo_features(payload, db),
                       q |-> ch.q]

section(kind, i, payload, db, t, order, features) ==
    IF kind = "review" THEN review_section(i, payload, db, t)
    ELSE tx_section(i, payload, db, t, order, features)

\* the sections whose queries are made to raise here: the first one that
\* queries and the last one (no section catches, so every query in
\* between fails the same way)
FaultSections(kind) == {2, NSections(kind)}

\* the row orders the group_by query of a section may return
SectionOrders(kind, i, payload, db) ==
    IF kind = "tx" /\ i = 6
    THEN GroupOrders(db, PGet(payload, "user_id", 0))
    ELSE {<<>>}

\* what the queries of an aggregator section see: the committed rows of
\* the table of its own entity class, named by their primary keys (the
\* users table does not change, rows are never updated or deleted)
ReadView(kind, db) ==
    IF kind = "review" THEN {x.id : x \in db.reviews}
    ELSE {x.id : x \in db.transactions}

\* the store contents a section saw, given the primary keys it saw
ViewRows(kind, ids, db) ==
    IF kind = "review"
    THEN [db EXCEPT !.reviews = {x \in @ : x.id \in ids},
                    !.transactions = {}]
    ELSE [db EXCEPT !.transactions = {x \in @ : x.id \in ids},
                    !.reviews = {}]

\* a features dict at module level, shared by the calls in flight
AggregatorDict_shared(rs, r) == rs[r].agg @@ rs[NReq + 1 - r].agg

\* the dict an aggregator call assigns into: its own local `features`
AggregatorDict(rs, r) == rs[r].agg

\* the aggregator catches the error and returns what it has so far
OnQueryFailure_partial(req, i) ==
    [req EXCEPT !.failed = i, !.features = req.agg, !.pc = "model"]

\* a query raises inside the aggregator: nothing catches it there, the
\* call's local dict is gone and the handler's except clause is entered
OnQueryFailure(req, i) ==
    [req EXCEPT !.failed = i, !.agg = EmptyDict, !.pc = "except"]

\* return jsonify(...), status
Respond(req, status) == [req EXCEPT !.pc = "done", !.status = status]

ThresholdOf(cfg, kind) ==
    IF kind = "review" THEN cfg.review_thr ELSE cfg.tx_thr

ModelOf(cfg, kind) ==
    IF kind = "review" THEN cfg.review_model ELSE cfg.tx_model

\* the probabilities the models return here
ApiProbas == {10 * (One \div 100), 40 * (One \div 100)}

\* the model files load_models may find: each names a fitted pipeline
ModelFiles == {"pipeline_a", "pipeline_b"}

\* model.predict_proba(X)[0][1]: a function of the loaded pipeline and of
\* the feature vector
predict_proba(model, features) ==
    IF model = "pipeline_a" THEN 10 * (One \div 100)
    ELSE 40 * (One \div 100)

\* the serial primary key of the next row of a table
NextId(rows) ==
    IF rows = {} THEN 1
    ELSE 1 + (CHOOSE m \in {x.id : x \in rows} :
                 \A x \in rows : x.id <= m)

\* Review(...) / Transaction(...) of the handlers; created_at is the
\* server default
NewRow(kind, payload, id, t) ==
    IF kind = "review"
    THEN [id |-> id, user_id |-> payload.user_id,
          rating |-> payload.rating,
          product_id |-> PGet(payload, "product_id", None),
          ip_address |-> PGet(payload, "ip_address", None),
          device_fingerprint |-> PGet(payload, "device_fingerprint", None),
          created_at |-> t]
    ELSE [id |-> id, user_id |-> payload.user_id,
          amount |-> payload.amount,
          channel |-> PGet(payload, "channel", None),
          ip_address |-> PGet(payload, "ip_address", None),
          device_fingerprint |-> PGet(payload, "device_fingerprint", None),
          created_at |-> t]

Table(kind) == IF kind = "review" THEN "reviews" ELSE "transactions"

\* db.add(row); db.commit()
Commit(db, kind, row) ==
    IF kind = "review"
    THEN [db EXCEPT !.reviews = @ \cup {row}]
    ELSE [db EXCEPT !.transactions = @ \cup {row}]

\* the store the requests arrive at: the histories, and five transactions
\* of subject 3 within the last hour
ApiStore ==
    [users |-> SeedUsers,
     reviews |-> Prefix(ReviewHistory, Len(ReviewHistory)),
     transactions |-> Prefix(TxHistory, Len(TxHistory))
                      \cup {x \in BurstTxs(3, DayTime) : x.id <= 35}]

\* the headers of a request with the API key and of one with a fresh JWT
\* next to a stale key
ApiKeyHeaders == Headers(API_TOKEN, <<>>)

JwtHeaders ==
    Headers("stale", <<"Bearer", Token(JWT_SECRET, DayTime + 24)>>)

\* headers sent without a valid credential: none at all, a wrong key, an
\* expired token, a token signed with another secret, a string that is
\* not a JWT, a good token under another scheme
OtherHeaders ==
    {Headers(None, <<>>),
     Headers("stale", <<>>),
     Headers(None, <<"Bearer", Token(JWT_SECRET, DayTime)>>),
     Headers(None, <<"Bearer", Token("other", DayTime + 24)>>),
     Headers("stale", <<"Bearer", Garbage>>),
     Headers(None, <<"Basic", Token(JWT_SECRET, DayTime + 24)>>)}

\* the requests sent: endpoint, credential and JSON body
ApiEventSeq ==
    << [kind |-> "tx", cred |-> ApiKeyHeaders,
        payload |-> [user_id |-> 3, amount |-> 75000 * AmountOne]],
       [kind |-> "tx", cred |-> JwtHeaders,
        payload |-> [amount |-> 50 * AmountOne, channel |-> "app"]],
       [kind |-> "tx", cred |-> Headers(None, <<>>),
        payload |-> EmptyDict],
       [kind |-> "review", cred |-> ApiKeyHeaders,
        payload |-> [user_id |-> 1, review_text |-> ShoutingText,
                     rating |-> 5, product_id |-> "P1",
                     ip_address |-> "10.0.0.1"]],
       [kind |-> "review", cred |-> ApiKeyHeaders,
        payload |-> [user_id |-> 1, rating |-> 5]] >>

\* the requests in flight are interchangeable: they are numbered in the
\* order of ApiEventSeq; the same request is sent at most twice
ApiArrivals ==
    {evs \in [Requests -> 1..Len(ApiEventSeq)] :
        \A r \in Requests :
            /\ r < NReq => evs[r] <= evs[r + 1]
            /\ r + 2 <= NReq => evs[r] # evs[r + 2]}

\* the request that carries no credential is sent with any of OtherHeaders
SentWith(ev, headers) ==
    IF ev.cred = Headers(None, <<>>) THEN [ev EXCEPT !.cred = headers]
    ELSE ev

\* the locals of a handler call that has just been entered
NewRequest(ev) ==
    [kind |-> ev.kind, cred |-> ev.cred, payload |-> ev.payload,
     pc |-> "arrived", sec |-> 0, agg |-> EmptyDict, reads |-> <<>>,
     queries |-> <<>>, failed |-> 0, features |-> NoFeatures,
     proba |-> 0, ruled |-> FALSE, boost |-> 0, reasons |-> <<>>,
     decision |-> NoRecord, row |-> 0, status |-> 0]

DefaultConfig ==
    [review_thr |-> REVIEW_THR, tx_thr |-> TX_THR,
     review_model |-> "pipeline_a", tx_model |-> "pipeline_a"]

InitApiIdle ==
    /\ reqs = <<>>
    /\ config = DefaultConfig
    /\ preds = {}

\* load_models() has run (the model files found or not), NReq requests
\* have arrived
InitApi ==
    /\ store = ApiStore
    /\ now = DayTime
    /\ fe_kind = "none"
    /\ fe_payload = [user_id |-> 0]
    /\ fe_pc = "idle"
    /\ fe_out = NoFeatures
    /\ fe_order = <<>>
    /\ fe_queries = <<>>
    /\ \E evs \in ApiArrivals, headers \in OtherHeaders :
          reqs = [r \in Requests |->
                    NewRequest(SentWith(ApiEventSeq[evs[r]], headers))]
    /\ \E m \in ModelFiles \cup {"None"} :
          config = [DefaultConfig EXCEPT !.review_model = m, !.tx_model = m]
    /\ preds = {}

\* require_token
ApiAuth ==
    /\ \E r \in Requests :
          /\ reqs[r].pc = "arrived"
          /\ reqs' = [reqs EXCEPT ![r] =
                        IF Authorized(reqs[r].cred)
                        THEN [@ EXCEPT !.pc = "received"]
                        ELSE Respond(@, 401)]
    /\ UNCHANGED <<store, now, config, preds, fe_locals, ad_vars, rl_vars>>

\* the check of the required fields, then db = get_db()
ApiValidate ==
    /\ \E r \in Requests :
          /\ reqs[r].pc = "received"
          /\ reqs' = [reqs EXCEPT ![r] =
                        IF missing_fields(@.kind, @.payload) # {}
                        THEN Respond(@, 400)
                        ELSE [@ EXCEPT !.pc = "aggregate", !.sec = 1]]
    /\ UNCHANGED <<store, now, config, preds, fe_locals, ad_vars, rl_vars>>

\* the next section of the running aggregator call: its queries read the
\* store as it is now, and any of them may raise
ApiSection ==
    /\ \E r \in Requests :
          LET req == reqs[r]
              i   == req.sec
          IN  /\ req.pc = "aggregate"
              /\ \E order \in SectionOrders(req.kind, i, req.payload, store) :
                    LET base == AggregatorDict(reqs, r)
                        sc   == section(req.kind, i, req.payload, store,
                                        now, order, base)
                        agg  == sc.f @@ base
                    IN  \/ reqs' = [reqs EXCEPT ![r] =
                                [@ EXCEPT
                                    !.agg = agg,
                                    !.queries = @ \o sc.q,
                                    !.reads =
                                        Append(@, ReadView(req.kind, store)),
                                    !.sec = IF i < NSections(req.kind)
                                            THEN i + 1 ELSE i,
                                    !.features = IF i < NSections(req.kind)
                                                 THEN @ ELSE agg,
                                    !.pc = IF i < NSections(req.kind)
                                           THEN "aggregate" ELSE "model"]]
                        \/ /\ sc.q # <<>>
                           /\ i \in FaultSections(req.kind)
                           /\ reqs' = [reqs EXCEPT ![r] =
                                          OnQueryFailure(@, i)]
    /\ UNCHANGED <<store, now, config, preds, fe_locals, ad_vars, rl_vars>>

\* the model check, the model's probability, the rule function and
\* assemble_decision
ApiScore ==
    /\ \E r \in Requests :
          LET req == reqs[r]
          IN  /\ req.pc = "model"
              /\ \/ /\ ModelOf(config, req.kind) = "None"
                    /\ reqs' = [reqs EXCEPT ![r] = Respond(@, 503)]
                 \/ /\ ModelOf(config, req.kind) # "None"
                    /\ \E proba \in {predict_proba(ModelOf(config, req.kind),
                                                    req.features)} :
                          LET out == run_rules(req.kind, NRules(req.kind),
                                               req.features)
                          IN  reqs' = [reqs EXCEPT ![r] =
                                  [@ EXCEPT
                                      !.proba = proba,
                                      !.ruled = TRUE,
                                      !.boost = out.boost,
                                      !.reasons = out.reasons,
                                      !.decision =
                                          assemble_decision(
                                              proba,
                                              ThresholdOf(config, req.kind),
                                              out.boost, out.reasons),
                                      !.pc = "persist"]]
    /\ UNCHANGED <<store, now, config, preds, fe_locals, ad_vars, rl_vars>>

\* the row is built from the payload, added and committed; payload[...] of
\* an absent key and the commit may raise
ApiPersist ==
    /\ \E r \in Requests :
          LET req == reqs[r]
              id  == NextId(IF req.kind = "review" THEN store.reviews
                            ELSE store.transactions)
          IN  /\ req.pc = "persist"
              /\ \/ /\ RequiredFields(req.kind) \subseteq DOMAIN req.payload
                    /\ store' = Commit(store, req.kind,
                                       NewRow(req.kind, req.payload, id, now))
                    /\ preds' = preds \cup
                                 {[table |-> Table(req.kind), id |-> id,
                                   flag |-> req.decision.decision,
                                   score |-> req.decision.score_final,
                                   decision_json |-> req.decision]}
                    /\ reqs' = [reqs EXCEPT ![r] =
                                  [@ EXCEPT !.row = id, !.pc = "respond"]]
                 \/ /\ reqs' = [reqs EXCEPT ![r] = [@ EXCEPT !.pc = "except"]]
                    /\ UNCHANGED <<store, preds>>
    /\ UNCHANGED <<now, config, fe_locals, ad_vars, rl_vars>>

\* after the commit: logger.info, then jsonify({"review_id": review.id,
\* **decision}), 200; the commit has expired the row object, so reading
\* its id queries the store again, and that query may raise
ApiRespond ==
    /\ \E r \in Requests :
          /\ reqs[r].pc = "respond"
          /\ \/ reqs' = [reqs EXCEPT ![r] = Respond(@, 200)]
             \/ reqs' = [reqs EXCEPT ![r] = [@ EXCEPT !.pc = "except"]]
    /\ UNCHANGED <<store, now, config, preds, fe_locals, ad_vars, rl_vars>>

\* except Exception: db.rollback(); 500. The rollback ends the open
\* transaction; what was committed stays
ApiExcept ==
    /\ \E r \in Requests :
          /\ reqs[r].pc = "except"
          /\ reqs' = [reqs EXCEPT ![r] = Respond(@, 500)]
    /\ UNCHANGED <<store, now, config, preds, fe_locals, ad_vars, rl_vars>>

(***************************************************************************)
(* ONE CLIENT AT A TIME: predict_transaction called again and again, each  *)
(* call finished before the next begins (engineer_tx_features, tx_rules,   *)
(* then db.add / db.commit, app.py 326-361)                                *)
(***************************************************************************)
\* the number of rows of the transactions table up to which calls are made
MaxSeq == 8

\* the hours the clock may advance after the first call
SeqHours == 2

DeviceNames ==
    <<"dev1", "dev2", "dev3", "dev4", "dev5", "dev6", "dev7", "dev8",
      "dev9", "dev10", "dev11", "dev12">>

Device(k) == DeviceNames[k]

\* the subjects: 2 has an old account, the record of 3 has no creation
\* time, 4 has no user record
SeqSubjects == {2, 3, 4}

SeqAmounts == {50 * AmountOne, 16000 * AmountOne, 75000 * AmountOne}

\* the first body a client sends: no device fingerprint, one fingerprint
\* used for every call ("shared"), or a new fingerprint with every call
SeqPayloads ==
    { [user_id |-> uid, amount |-> am]
      @@ Opt("device_fingerprint", dev, dev # "absent") :
        uid \in SeqSubjects, am \in SeqAmounts,
        dev \in {"absent", "shared", Device(1)} }

\* the body of the n-th call of the client that sent prev before
NextPayload(prev, n) ==
    IF "device_fingerprint" \in DOMAIN prev
       /\ prev.device_fingerprint # "shared"
    THEN [prev EXCEPT !.device_fingerprint = Device(n)]
    ELSE prev

\* eleven transactions of subject 3 in the hour before t, from one IP
\* address and seven devices, of 10.00 and 20.00
RichTxs(t) ==
    { [id |-> 100 + k, user_id |-> 3,
       amount |-> (1 + (k % 2)) * 10 * AmountOne,
       channel |-> "web", ip_address |-> "10.0.0.9",
       device_fingerprint |-> Device(1 + (k % 7)),
       created_at |-> t - 1] : k \in 1..11 }

RichPayload ==
    [user_id |-> 3, amount |-> 75000 * AmountOne,
     ip_address |-> "10.0.0.9", device_fingerprint |-> "dev1"]

\* the event's own row is flushed before the aggregator queries
SessionView_flushed(db, payload, t) ==
    Commit(db, "tx", NewRow("tx", payload, NextId(db.transactions), t))

\* what the aggregator's queries see: the committed rows; the row of the
\* event itself is built and added only after the rules have run
SessionView(db, payload, t) == db

\* the first call is about to be made, on an empty transactions table or
\* on the table that holds RichTxs
InitSeq ==
    /\ now \in {DayTime, NightTime}
    /\ \/ /\ store = [users |-> SeedUsers, reviews |-> {},
                      transactions |-> {}]
          /\ fe_payload \in SeqPayloads
       \/ /\ store = [users |-> SeedUsers, reviews |-> {},
                      transactions |-> RichTxs(now)]
          /\ fe_payload = RichPayload
    /\ fe_kind = "tx"
    /\ fe_pc = "ready"
    /\ fe_out = NoFeatures
    /\ fe_order = <<>>
    /\ fe_queries = <<>>

\* features = engineer_tx_features(payload, db)
SeqEngineer ==
    /\ fe_kind = "tx"
    /\ fe_pc = "ready"
    /\ \E order \in GroupOrders(SessionView(store, fe_payload, now),
                                 PGet(fe_payload, "user_id", 0)) :
          LET r == engineer_tx_features(
                       fe_payload, SessionView(store, fe_payload, now),
                       now, order)
          IN  /\ fe_out' = r.features
              /\ fe_queries' = r.queries
              /\ fe_order' = order
    /\ fe_pc' = "returned"
    /\ UNCHANGED <<store, now, fe_kind, fe_payload, ad_vars, rl_vars,
                   api_vars>>

\* boost, reasons = tx_rules(features) is entered
SeqRules ==
    /\ fe_kind = "tx"
    /\ fe_pc = "returned"
    /\ rl_kind = "none"
    /\ rl_kind' = "tx"
    /\ rl_features' = fe_out
    /\ rl_pc' = 0
    /\ rl_boost' = Acc0.boost
    /\ rl_reasons' = Acc0.reasons
    /\ UNCHANGED <<rl_log, ad_vars, fe_vars, api_vars>>

\* the time of the earliest transaction, now when there is none
FirstSeen ==
    IF store.transactions = {} THEN now
    ELSE (CHOOSE x \in store.transactions :
             \A y \in store.transactions : x.created_at <= y.created_at
         ).created_at

\* db.add(transaction); db.commit(): the call is over; the clock may have
\* moved on by the time of the next one
SeqCommit ==
    /\ fe_kind = "tx"
    /\ fe_pc = "returned"
    /\ rl_kind = "tx"
    /\ rl_pc = NRules("tx")
    /\ store' = Commit(store, "tx",
                       NewRow("tx", fe_payload, NextId(store.transactions),
                              now))
    /\ \E tick \in {0, 1} :
          /\ now + tick - FirstSeen <= SeqHours
          /\ now' = now + tick
    /\ fe_pc' = "idle"
    /\ rl_kind' = "none"
    /\ UNCHANGED <<fe_kind, fe_payload, fe_out, fe_order, fe_queries,
                   rl_features, rl_pc, rl_boost, rl_reasons, rl_log,
                   ad_vars, api_vars>>

\* the client sends its next request
SeqArrive ==
    /\ fe_kind = "tx"
    /\ fe_pc = "idle"
    /\ Cardinality(store.transactions) < MaxSeq
    /\ fe_payload' = NextPayload(fe_payload,
                                 Cardinality(store.transactions) + 1)
    /\ fe_pc' = "ready"
    /\ UNCHANGED <<store, now, fe_kind, fe_out, fe_order, fe_queries,
                   ad_vars, rl_vars, api_vars>>

SeqInit == InitFusionIdle /\ InitRulesIdle /\ InitSeq /\ InitApiIdle

SeqNext == SeqEngineer \/ SeqRules \/ RuleStep \/ SeqCommit \/ SeqArrive

SpecSeq == SeqInit /\ [][SeqNext]_vars

(***************************************************************************)
(* ONE QUERY AT A TIME: the windowed counts of the subject are separate    *)
(* SELECT COUNT statements (review_pipeline.py 99-112, tx_pipeline.py      *)
(* 77-92); the engine is created without isolation_level (db/models.py     *)
(* 95), so each statement sees what is committed when it runs, and the     *)
(* handlers of other requests commit in between                            *)
(***************************************************************************)
\* the number of rows other requests commit while the aggregator runs
MaxCommits == 2

\* the windowed counts in the order the aggregator queries them
WindowQueries(kind) ==
    IF kind = "review"
    THEN << [key |-> "user_30d_review_count", window |-> Days30],
            [key |-> "user_7d_review_count",  window |-> Days7],
            [key |-> "user_1h_review_count",  window |-> Hours1] >>
    ELSE << [key |-> "user_1h_tx",  window |-> Hours1],
            [key |-> "user_24h_tx", window |-> Hours24],
            [key |-> "user_7d_tx",  window |-> Days7] >>

\* .scalar() of one of these COUNT queries on the rows committed so far
WindowCount(kind, db, user_id, t, window) ==
    IF kind = "review" THEN UserReviewCount(db, user_id, t, window)
    ELSE Cardinality(UserTxsSince(db, user_id, t, window))

History(kind) == IF kind = "review" THEN ReviewHistory ELSE TxHistory

WindowPayloads(kind) ==
    { Opt("user_id", uid, uid # 0)
      @@ (IF kind = "review" THEN [rating |-> 5]
          ELSE [amount |-> 50 * AmountOne]) : uid \in {0, 1, 2} }

\* the aggregator has read the clock and is about to run its first
\* window query
InitWindows ==
    /\ now \in {DayTime, NightTime}
    /\ fe_kind \in {"review", "tx"}
    /\ fe_payload \in WindowPayloads(fe_kind)
    /\ \E k \in 0..Len(ReviewHistory), l \in 0..Len(TxHistory) :
          /\ fe_kind = "review" => l = Len(TxHistory)
          /\ fe_kind = "tx" => k = Len(ReviewHistory)
          /\ store = [users |-> SeedUsers,
                      reviews |-> Prefix(ReviewHistory, k),
                      transactions |-> Prefix(TxHistory, l)]
    /\ fe_pc = "ready"
    /\ fe_out = NoFeatures
    /\ fe_order = <<>>
    /\ fe_queries = <<>>

\* the next COUNT query of the `if user_id:` branch
WinQuery ==
    /\ fe_pc = "ready"
    /\ "user_id" \in DOMAIN fe_payload
    /\ Len(fe_queries) < Len(WindowQueries(fe_kind))
    /\ LET q == WindowQueries(fe_kind)[Len(fe_queries) + 1]
       IN  /\ fe_out' = (q.key :> Num(WindowCount(fe_kind, store,
                                                  fe_payload.user_id, now,
                                                  q.window)))
                         @@ fe_out
           /\ fe_queries' = Append(fe_queries,
                                   Query(Table(fe_kind), "count",
                                         {"user_id", "created_at"}))
    /\ fe_pc' = IF Len(fe_queries') = Len(WindowQueries(fe_kind))
                THEN "returned" ELSE "ready"
    /\ UNCHANGED <<store, now, fe_kind, fe_payload, fe_order, ad_vars,
                   rl_vars, api_vars>>

\* the else branch: no subject, the three counts are 0
WinNoSubject ==
    /\ fe_pc = "ready"
    /\ "user_id" \notin DOMAIN fe_payload
    /\ fe_out' = [i \in {WindowQueries(fe_kind)[k].key :
                             k \in DOMAIN WindowQueries(fe_kind)}
                     |-> Num(0)] @@ fe_out
    /\ fe_pc' = "returned"
    /\ UNCHANGED <<store, now, fe_kind, fe_payload, fe_order, fe_queries,
                   ad_vars, rl_vars, api_vars>>

\* the handler of another request commits its event (app.py 281-282,
\* 360-361); created_at is the time of that insert, not before the time
\* the aggregator read
WinCommit ==
    /\ fe_pc = "ready"
    /\ Cardinality(store[Table(fe_kind)]
                   \ Prefix(History(fe_kind), Len(History(fe_kind))))
          < MaxCommits
    /\ \E uid \in {1, 2}, late \in {0, 1} :
          store' = Commit(store, fe_kind,
                          NewRow(fe_kind,
                                 [user_id |-> uid, rating |-> 5,
                                  amount |-> 50 * AmountOne],
                                 NextId(store[Table(fe_kind)]),
                                 now + late))
    /\ UNCHANGED <<now, fe_locals, ad_vars, rl_vars, api_vars>>

WindowsInit ==
    InitFusionIdle /\ InitRulesIdle /\ InitWindows /\ InitApiIdle

WindowsNext == WinQuery \/ WinNoSubject \/ WinCommit

SpecWindows == WindowsInit /\ [][WindowsNext]_vars

(***************************************************************************)
(* Specifications                                                          *)
(***************************************************************************)
\* assemble_decision applied to every input of the fusion input space
FusionInit == InitFusion /\ InitRulesIdle /\ InitFeaturesIdle
    /\ InitApiIdle

FusionNext == AssembleDecision

SpecFusion == FusionInit /\ [][FusionNext]_vars

\* review_rules / tx_rules run block by block on every rule input
RulesInit == InitFusionIdle /\ InitRules /\ InitFeaturesIdle
    /\ InitApiIdle

RulesNext == RuleStep

SpecRules == RulesInit /\ [][RulesNext]_vars

\* a feature dict scored: the rule function, then assemble_decision
ScoreInit == InitFusionIdle /\ InitScore /\ InitFeaturesIdle
    /\ InitApiIdle

ScoreNext == RuleStep \/ ScoreHandOff \/ AssembleDecision

SpecScore == ScoreInit /\ [][ScoreNext]_vars

\* a rule function called repeatedly
RecallInit == InitFusionIdle /\ InitScore /\ InitFeaturesIdle
    /\ InitApiIdle

RecallNext == RuleStep \/ RuleReturn

SpecRecall == RecallInit /\ [][RecallNext]_vars

\* requests served concurrently by the prediction handlers
ApiInit == InitFusionIdle /\ InitRulesIdle /\ InitApi

ApiNext ==
    \/ ApiAuth \/ ApiValidate \/ ApiSection \/ ApiScore \/ ApiPersist
    \/ ApiRespond \/ ApiExcept

SpecApi == ApiInit /\ [][ApiNext]_vars

\* the aggregators applied to events arriving at points of the history
Init == InitFusionIdle /\ InitRulesIdle /\ InitFeatures
    /\ InitApiIdle

Next == EngineerReviewFeatures \/ EngineerTxFeatures

Spec == Init /\ [][Next]_vars

(***************************************************************************)
(* Properties of the score fusion                                          *)
(***************************************************************************)
ValidFusionInput ==
    /\ ad_in.score_model >= 0
    /\ ad_in.score_model <= One
    /\ ad_in.rule_boost >= 0

\* C1: for a model score in [0,1] and a non-negative rule boost (any
\* threshold) the final score, and the score_final the record reports, lie
\* in [0,1]; when model score + rule boost exceeds 1 the final score is
\* exactly 1.
C1_FinalScoreBounded ==
    (ad_pc = "returned" /\ ValidFusionInput) =>
        /\ ad_final >= 0 /\ ad_final <= One
        /\ ad_out.score_final >= 0 /\ ad_out.score_final <= One
        /\ (ad_in.score_model + ad_in.rule_boost > One =>
                ad_final = One /\ ad_out.score_final = One)

C1_Witness ==
    /\ ad_pc = "returned"
    /\ ValidFusionInput
    /\ ad_in.score_model + ad_in.rule_boost > One
    /\ ad_out.score_final = One

\* C2: the decision flag is true exactly when the clamped final score is
\* greater than or equal to the threshold the caller supplied; equality
\* yields decision = TRUE.
C2_DecisionIffAtLeastThreshold ==
    ad_pc = "returned" =>
        /\ ad_out.threshold = ad_in.threshold
        /\ ad_out.decision = (ad_final >= ad_in.threshold)
        /\ (ad_final = ad_in.threshold => ad_out.decision = TRUE)

C2_Witness ==
    /\ ad_pc = "returned"
    /\ ad_final = ad_in.threshold
    /\ ad_in.score_model > 0 /\ ad_in.rule_boost > 0
    /\ ad_out.decision = TRUE

ConfidenceRank(c) == CASE c = "low" -> 0 [] c = "medium" -> 1 [] c = "high" -> 2

\* C3: with d = |final_score - threshold|, confidence is "high" iff
\* d > 0.2, "medium" iff 0.1 < d <= 0.2 and "low" iff d <= 0.1; for the
\* same threshold an input at a distance at least as large never gets a
\* lower confidence tier.
C3_ConfidenceBands ==
    ad_pc = "returned" =>
        LET d == Abs(ad_final - ad_in.threshold)
        IN  /\ ad_out.confidence \in {"low", "medium", "high"}
            /\ (ad_out.confidence = "high") = (d > One \div 5)
            /\ (ad_out.confidence = "medium") =
                   (d > One \div 10 /\ d <= One \div 5)
            /\ (ad_out.confidence = "low") = (d <= One \div 10)
            /\ \A sm \in ModelScores, rb \in RuleBoosts :
                   LET o  == assemble_decision(sm, ad_in.threshold, rb, <<>>)
                       d2 == Abs(final_score_of(sm, rb) - ad_in.threshold)
                   IN  d2 >= d => ConfidenceRank(o.confidence)
                                      >= ConfidenceRank(ad_out.confidence)

C3_Witness ==
    /\ ad_pc = "returned"
    /\ Abs(ad_final - ad_in.threshold) = One \div 5
    /\ ad_out.confidence = "medium"

InvalidFusionInput ==
    \/ ad_in.score_model < 0
    \/ ad_in.score_model > One
    \/ ad_in.threshold < 0

\* C8: a call with a model score outside [0,1] or a negative threshold
\* raises InvalidScoreInput and returns no decision record.
C8_InvalidInputRaises ==
    (ad_pc # "ready" /\ InvalidFusionInput) =>
        (ad_pc = "raised" /\ ad_out = NoRecord)

(***************************************************************************)
(* Properties of the rule evaluators                                       *)
(***************************************************************************)
RulesDone == rl_kind \in {"review", "tx"} /\ rl_pc = NRules(rl_kind)

F(key) == rl_features[key].num

\* an amount literal of the rules, in amount units
Amt(units) == units * AmountOne

\* The rule tables of the two evaluators as (predicate, increment in
\* hundredths, reason) in declaration order; the two tiers of one rule are
\* two entries with exclusive predicates.
ReviewRuleTable ==
    << [holds |-> F("ip_30d_review_count") > 50, inc |-> 15,
        reason |-> "Suspicious IP activity (50+ reviews in 30 days)"],
       [holds |-> F("account_age_days") < 7 /\ F("user_30d_review_count") > 5,
        inc |-> 20, reason |-> "New account with unusual activity"],
       [holds |-> 10 * F("upper_ratio") > 4 * FeatOne, inc |-> 5,
        reason |-> "Excessive uppercase usage"],
       [holds |-> F("text_len") < 10, inc |-> 10,
        reason |-> "Suspiciously short review"],
       [holds |-> F("text_len") > 1000, inc |-> 5,
        reason |-> "Unusually long review"],
       [holds |-> F("rating") \in {FeatOne, 5 * FeatOne} /\ F("text_len") < 20,
        inc |-> 10, reason |-> "Extreme rating with minimal text"],
       [holds |-> 2 * Abs(F("rating_deviation")) > 5 * FeatOne, inc |-> 8,
        reason |-> "Rating inconsistent with user history"],
       [holds |-> F("device_review_count") > 100, inc |-> 12,
        reason |-> "Device used for 100+ reviews"] >>

TxRuleTable ==
    << [holds |-> F("amount") > Amt(50000), inc |-> 25,
        reason |-> "High-value transaction (>50,000)"],
       [holds |-> F("amount") > Amt(20000) /\ F("amount") <= Amt(50000),
        inc |-> 10,
        reason |-> "Elevated transaction amount (>20,000)"],
       [holds |-> F("user_1h_tx") > 5, inc |-> 20,
        reason |-> "High transaction velocity (5+ in 1 hour)"],
       [holds |-> F("dev_switch_7d") > 5, inc |-> 15,
        reason |-> "Frequent device changes (5+ in 7 days)"],
       [holds |-> F("country_mismatch") = 1, inc |-> 15,
        reason |-> "Transaction from unusual location"],
       [holds |-> Abs(F("amount_z")) > 3 * FeatOne, inc |-> 12,
        reason |-> "Amount significantly deviates from user pattern"],
       [holds |-> F("is_night_time") = 1 /\ F("amount") > Amt(10000),
        inc |-> 8,
        reason |-> "Large transaction during unusual hours"],
       [holds |-> F("account_age_days") < 30 /\ F("amount") > Amt(15000),
        inc |-> 18, reason |-> "New account with large transaction"],
       [holds |-> F("ip_1h_tx") > 10, inc |-> 10,
        reason |-> "Multiple transactions from same IP"] >>

RuleTable == IF rl_kind = "review" THEN ReviewRuleTable ELSE TxRuleTable

RECURSIVE SumIncs(_, _)
SumIncs(table, n) ==
    IF n = 0 THEN 0
    ELSE SumIncs(table, n - 1)
         + (IF table[n].holds THEN table[n].inc * (One \div 100) ELSE 0)

RECURSIVE FiredReasons(_, _)
FiredReasons(table, n) ==
    IF n = 0 THEN <<>>
    ELSE FiredReasons(table, n - 1)
         \o (IF table[n].holds THEN <<table[n].reason>> ELSE <<>>)

\* C4: the boost a rule function returns is the sum of the fixed
\* increments of all rules whose predicate holds on the feature dict (a
\* sum, not a maximum, nothing skipped, no cap).
C4_BoostIsSumOfFiredRules ==
    RulesDone => rl_boost = SumIncs(RuleTable, Len(RuleTable))

\* all eight transaction rules fired: the uncapped total exceeds 1.0
C4_Witness ==
    /\ RulesDone /\ rl_kind = "tx"
    /\ Len(rl_reasons) = NTxRules
    /\ rl_boost > One

\* C5: the reason list holds exactly one reason per fired rule, in rule
\* declaration order, whatever the sizes of the boosts are.
C5_ReasonsInDeclarationOrder ==
    RulesDone => rl_reasons = FiredReasons(RuleTable, Len(RuleTable))

\* shouting (+0.05) precedes device reuse (+0.12), the smaller boost first
C5_Witness ==
    /\ RulesDone /\ rl_kind = "review"
    /\ rl_reasons = <<"Excessive uppercase usage",
                      "Device used for 100+ reviews">>

HighTier == "High-value transaction (>50,000)"

ElevatedTier == "Elevated transaction amount (>20,000)"

Occurrences(seq, x) == Cardinality({i \in 1..Len(seq) : seq[i] = x})

\* C6: of the two amount tiers at most one contributes: amount > 50000
\* adds +0.25 and the high-value reason only, an amount in (20000, 50000]
\* adds +0.10 and the elevated reason only, an amount <= 20000 adds nothing.
C6_AmountTiersExclusive ==
    (rl_kind = "tx" /\ rl_pc >= 1) =>
        LET amount == F("amount")
            tier   == <<Occurrences(rl_reasons, HighTier),
                        Occurrences(rl_reasons, ElevatedTier)>>
            first  == IF rl_pc = 1
                      THEN <<rl_boost, Len(rl_reasons)>>
                      ELSE <<0, 0>>
        IN  /\ amount > Amt(50000) =>
                /\ tier = <<1, 0>>
                /\ rl_pc = 1 => first = <<25 * (One \div 100), 1>>
            /\ (amount > Amt(20000) /\ amount <= Amt(50000)) =>
                /\ tier = <<0, 1>>
                /\ rl_pc = 1 => first = <<10 * (One \div 100), 1>>
            /\ amount <= Amt(20000) =>
                /\ tier = <<0, 0>>
                /\ rl_pc = 1 => first = <<0, 0>>

C6_Witness ==
    /\ rl_kind = "tx" /\ rl_pc = 1
    /\ F("amount") > Amt(50000)
    /\ rl_boost = 25 * (One \div 100)
    /\ rl_reasons = <<HighTier>>

RuleUnchanged == rl_boost' = rl_boost /\ rl_reasons' = rl_reasons

\* the step that runs rule block i
RuleBlockRuns(kind, i) == rl_kind = kind /\ rl_pc = i - 1 /\ rl_pc' = i

\* C7: every numeric rule threshold is a strict inequality: a rule block
\* run on a feature value equal to its literal adds no boost and no reason
\* (an amount of exactly 50000 gets the >20000 tier only).
C7_ThresholdsStrict ==
    [][ /\ (RuleBlockRuns("review", 1) /\ F("ip_30d_review_count") = 50)
              => RuleUnchanged
        /\ (RuleBlockRuns("review", 2)
              /\ (F("account_age_days") = 7 \/ F("user_30d_review_count") = 5))
              => RuleUnchanged
        /\ (RuleBlockRuns("review", 3) /\ 10 * F("upper_ratio") = 4 * FeatOne)
              => RuleUnchanged
        /\ (RuleBlockRuns("review", 4) /\ F("text_len") \in {10, 1000})
              => RuleUnchanged
        /\ (RuleBlockRuns("review", 5) /\ F("text_len") = 20)
              => RuleUnchanged
        /\ (RuleBlockRuns("review", 6)
              /\ 2 * Abs(F("rating_deviation")) = 5 * FeatOne)
              => RuleUnchanged
        /\ (RuleBlockRuns("review", 7) /\ F("device_review_count") = 100)
              => RuleUnchanged
        /\ (RuleBlockRuns("tx", 1) /\ F("amount") = Amt(50000))
              => /\ rl_boost' = rl_boost + 10 * (One \div 100)
                 /\ rl_reasons' = Append(rl_reasons, ElevatedTier)
        /\ (RuleBlockRuns("tx", 1) /\ F("amount") = Amt(20000))
              => RuleUnchanged
        /\ (RuleBlockRuns("tx", 2) /\ F("user_1h_tx") = 5)
              => RuleUnchanged
        /\ (RuleBlockRuns("tx", 3) /\ F("dev_switch_7d") = 5)
              => RuleUnchanged
        /\ (RuleBlockRuns("tx", 5) /\ Abs(F("amount_z")) = 3 * FeatOne)
              => RuleUnchanged
        /\ (RuleBlockRuns("tx", 6) /\ F("amount") = Amt(10000))
              => RuleUnchanged
        /\ (RuleBlockRuns("tx", 7)
              /\ (F("account_age_days") = 30 \/ F("amount") = Amt(15000)))
              => RuleUnchanged
        /\ (RuleBlockRuns("tx", 8) /\ F("ip_1h_tx") = 10)
              => RuleUnchanged ]_vars

\* the first block has run on amount = 50000: only the lower tier fired
C7_Witness ==
    /\ rl_kind = "tx" /\ rl_pc = 1
    /\ F("amount") = Amt(50000)
    /\ rl_boost = 10 * (One \div 100)
    /\ rl_reasons = <<ElevatedTier>>

(***************************************************************************)
(* Properties of the feature aggregators                                   *)
(***************************************************************************)
Returned(kind) == fe_kind = kind /\ fe_pc = "returned"

\* the keys engineer_review_features assigns
ReviewFeatureKeys ==
    {"review_text", "text_len", "word_count", "upper_ratio", "digit_ratio",
     "punct_ratio", "exclaim_ratio", "question_ratio", "avg_word_len",
     "unique_word_ratio", "has_url", "has_email", "repeated_chars", "rating",
     "rating_deviation", "user_avg_rating", "account_age_days",
     "user_30d_review_count", "user_7d_review_count", "user_1h_review_count",
     "ip_30d_review_count", "ip_unique_users", "device_review_count",
     "device_unique_users", "product_review_count", "product_avg_rating"}

\* the keys engineer_tx_features assigns
TxFeatureKeys ==
    {"amount", "currency", "channel", "hour_of_day", "is_night_time",
     "is_weekend", "account_age_days", "user_total_txs", "user_avg_amount",
     "user_max_amount", "user_min_amount", "user_std_amount", "amount_z",
     "user_1h_tx", "user_24h_tx", "user_7d_tx", "user_24h_amount",
     "ip_1h_tx", "ip_unique_users", "dev_switch_7d", "rolling_mean_diff",
     "rolling_std", "channel_mismatch", "channel_freq", "country_mismatch"}

FeatureKeys(kind) ==
    IF kind = "review" THEN ReviewFeatureKeys ELSE TxFeatureKeys

\* the values copied from the event as they are
PassThroughKeys(kind) ==
    IF kind = "review" THEN {"review_text"} ELSE {"currency", "channel"}

Restrict(f, keys) == [k \in keys |-> f[k]]

\* the features conditioned on an optional field, with their defaults
ConditionedOn(kind, field) ==
    CASE kind = "review" /\ field = "ip_address" ->
             [ip_30d_review_count |-> Num(0), ip_unique_users |-> Num(0)]
      [] kind = "review" /\ field = "device_fingerprint" ->
             [device_review_count |-> Num(0), device_unique_users |-> Num(0)]
      [] kind = "review" /\ field = "product_id" ->
             [product_review_count |-> Num(0),
              product_avg_rating |-> Num(3 * FeatOne)]
      [] kind = "tx" /\ field = "ip_address" ->
             [ip_1h_tx |-> Num(0), ip_unique_users |-> Num(0)]
      [] kind = "tx" /\ field = "device_fingerprint" ->
             [dev_switch_7d |-> Num(0)]

OptionalFields(kind) ==
    IF kind = "review" THEN {"ip_address", "device_fingerprint", "product_id"}
    ELSE {"ip_address", "device_fingerprint"}

\* values the optional fields take in events
FieldValues(field) ==
    CASE field = "ip_address" -> {"10.0.0.1", "10.0.0.2"}
      [] field = "device_fingerprint" -> {"dev1", "dev2"}
      [] field = "product_id" -> {"P1", "P2"}

\* the query reads the column of the optional field
KeyedBy(q, field) ==
    \/ field \in q.by
    \/ q.agg = "count(distinct " \o field \o ")"

\* the feature dict of the same call had the event carried the field
WithField(kind, field, v) ==
    LET payload == (field :> v) @@ fe_payload
    IN  IF kind = "review"
        THEN engineer_review_features(payload, store, now).features
        ELSE engineer_tx_features(payload, store, now, fe_order).features

\* C10: when an optional field (IP address, device fingerprint, product
\* id) is absent from the event, the aggregator returns its complete
\* feature dict, has issued no query on that field's column, every
\* feature conditioned on the field has its default, and every other
\* feature has the value it would have had with the field present.
C10_AbsentOptionalFieldDefaults ==
    \A kind \in {"review", "tx"} :
        Returned(kind) =>
              \A field \in OptionalFields(kind) \ DOMAIN fe_payload :
                  LET defaults == ConditionedOn(kind, field)
                      others   == FeatureKeys(kind) \ DOMAIN defaults
                  IN  /\ DOMAIN fe_out = FeatureKeys(kind)
                      /\ Restrict(fe_out, DOMAIN defaults) = defaults
                      /\ \A i \in 1..Len(fe_queries) :
                            ~KeyedBy(fe_queries[i], field)
                      /\ \A v \in FieldValues(field) :
                            \A w \in {WithField(kind, field, v)} :
                                Restrict(w, others) = Restrict(fe_out, others)

\* a review without IP address while the subject's history holds reviews
\* stored without IP address, and the subject's other features are not
\* defaults
C10_Witness ==
    /\ Returned("review")
    /\ "ip_address" \notin DOMAIN fe_payload
    /\ "device_fingerprint" \in DOMAIN fe_payload
    /\ \E r \in store.reviews : r.ip_address = None
    /\ fe_out.ip_30d_review_count = Num(0)
    /\ fe_out.user_30d_review_count.num > 0
    /\ fe_out.device_review_count.num > 0

\* the text of the review being engineered
EventText == PGet(fe_payload, "review_text", <<>>)

\* the features that divide by the length of the text or the word count
TextRatioKeys ==
    {"upper_ratio", "digit_ratio", "punct_ratio", "exclaim_ratio",
     "question_ratio", "avg_word_len", "unique_word_ratio"}

\* C11: for a review whose text is empty the aggregator returns
\* text_len = 0, word_count = 0 and all seven ratio features equal to 0;
\* for any text, text_len is the number of characters of the text.
C11_EmptyTextAllZero ==
    Returned("review") =>
        /\ {"text_len", "word_count"} \cup TextRatioKeys
               \subseteq DOMAIN fe_out
        /\ fe_out.text_len = Num(Len(EventText))
        /\ EventText = <<>> =>
              /\ fe_out.text_len = Num(0)
              /\ fe_out.word_count = Num(0)
              /\ \A k \in TextRatioKeys : fe_out[k] = Num(0)

\* a review with the empty text has been engineered against a non-empty
\* history
C11_Witness ==
    /\ Returned("review")
    /\ "review_text" \in DOMAIN fe_payload
    /\ EventText = <<>>
    /\ fe_out.upper_ratio = Num(0)
    /\ store.reviews # {}

(***************************************************************************)
(* Properties of scoring a feature dict                                    *)
(***************************************************************************)
\* assemble_decision has returned for the dict of this kind, scored with
\* model probability proba
Scored(kind, proba) ==
    /\ rl_kind = kind
    /\ ad_pc = "returned"
    /\ ad_in.score_model = proba

\* the review of the example: rating 5, the 31-character shouting text,
\* account age 2 days, 9 reviews in 30 days
Example12 ==
    review_text_features([review_text |-> ShoutingText])
    @@ [rating |-> Num(5 * FeatOne), account_age_days |-> Num(2),
        user_30d_review_count |-> Num(9)]

\* C12: the example review, scored with model_score 0.40 against the
\* threshold 0.65, fires exactly the new-account-burst and the shouting
\* rule: rule_boost 0.25, final_score 0.65, decision true, confidence low.
C12_ReviewExample ==
    (Scored("review", 40 * (One \div 100)) /\ rl_features = Example12) =>
        /\ Example12.text_len = Num(31)
        /\ Example12.upper_ratio.num > 4 * (FeatOne \div 10)
        /\ ad_out.reasons = <<"New account with unusual activity",
                              "Excessive uppercase usage">>
        /\ ad_out.score_rules = 25 * (One \div 100)
        /\ ad_out.score_final = 65 * (One \div 100)
        /\ ad_out.threshold = 65 * (One \div 100)
        /\ ad_out.decision = TRUE
        /\ ad_out.confidence = "low"

C12_Witness ==
    /\ Scored("review", 40 * (One \div 100))
    /\ rl_features = Example12
    /\ ad_out.decision = TRUE
    /\ Len(ad_out.reasons) = 2

\* the transaction of the example: amount 75000 and 6 transactions of the
\* subject in the last hour
IsExample13(features) ==
    /\ Get(features, "amount", 0) = 75000 * AmountOne
    /\ Get(features, "user_1h_tx", 0) = 6

\* the outcome of the example
Outcome13 ==
    /\ ad_out.reasons = <<"High-value transaction (>50,000)",
                          "High transaction velocity (5+ in 1 hour)">>
    /\ ad_out.score_rules = 45 * (One \div 100)
    /\ ad_out.score_final = 55 * (One \div 100)
    /\ ad_out.decision = TRUE
    /\ ad_out.confidence = "low"

\* no condition of the other transaction rules is met by the dict
NoOtherTxRule(features) ==
    /\ Get(features, "dev_switch_7d", 0) <= 5
    /\ Get(features, "country_mismatch", 0) # 1
    /\ Abs(Get(features, "amount_z", 0)) <= 3 * FeatOne
    /\ ~(Get(features, "is_night_time", 0) = 1)
    /\ Get(features, "account_age_days", 999) >= 30
    /\ Get(features, "ip_1h_tx", 0) <= 10

\* C13 as stated: every transaction dict with amount 75000 and
\* user_1h_tx = 6, the dicts returned by engineer_tx_features included,
\* scored with model_score 0.10 against 0.50, gets exactly the high-value
\* and velocity boosts: 0.45, final 0.55, decision true, confidence low.
C13_TxExampleAnyDict ==
    (Scored("tx", 10 * (One \div 100)) /\ IsExample13(rl_features)) =>
        Outcome13

\* C13 amended: the outcome of the example holds for every such dict that
\* meets no condition of the other rules; a dict of engineer_tx_features
\* carries account_age_days and is_night_time, and meets one when the
\* account is younger than 30 days or the hour is a night hour.
C13_TxExampleNoOtherRule ==
    /\ (/\ Scored("tx", 10 * (One \div 100))
        /\ IsExample13(rl_features)
        /\ NoOtherTxRule(rl_features)) => Outcome13
    /\ (/\ Scored("tx", 10 * (One \div 100))
        /\ IsExample13(rl_features)
        /\ ~NoOtherTxRule(rl_features)) =>
           ad_out.score_rules > 45 * (One \div 100)

\* the dict engineer_tx_features returned for the old account at day time
\* has been scored
C13_Witness ==
    /\ Scored("tx", 10 * (One \div 100))
    /\ IsExample13(rl_features)
    /\ NoOtherTxRule(rl_features)
    /\ {"account_age_days", "is_night_time"} \subseteq DOMAIN rl_features
    /\ ad_out.confidence = "low"

\* the keys the rule function of a kind reads
RuleKeys(kind) ==
    IF kind = "review"
    THEN {"ip_30d_review_count", "account_age_days", "user_30d_review_count",
          "upper_ratio", "text_len", "rating", "rating_deviation",
          "device_review_count"}
    ELSE {"amount", "user_1h_tx", "dev_switch_7d", "country_mismatch",
          "amount_z", "is_night_time", "account_age_days", "ip_1h_tx"}

\* C15: a feature dict that lacks a key the rule function reads never
\* gets a rule outcome and a decision record: scoring fails instead of
\* replacing the missing key by a default.
C15_MissingKeyFailsLoudly ==
    \A kind \in {"review", "tx"} :
        (rl_kind = kind /\ ~(RuleKeys(kind) \subseteq DOMAIN rl_features)) =>
            /\ rl_pc < NRules(kind)
            /\ ad_pc # "returned"

\* the log holds two calls on equal dicts
SameDictCalls(i, j) ==
    /\ rl_log[i].kind = rl_log[j].kind
    /\ rl_log[i].features = rl_log[j].features

\* C18: the rule functions are pure: a rule block leaves the dict it was
\* given, the store and the session's queries unchanged, and two calls on
\* equal dicts return equal (boost, reasons), whatever was called between.
C18_RulesPure ==
    /\ [](\A i, j \in DOMAIN rl_log :
             SameDictCalls(i, j) =>
                 /\ rl_log[i].boost = rl_log[j].boost
                 /\ rl_log[i].reasons = rl_log[j].reasons)
    /\ [][rl_pc' = rl_pc + 1 =>
             /\ rl_features' = rl_features
             /\ store' = store
             /\ fe_queries' = fe_queries]_vars

\* three calls returned: the first and the third on the same dict, which
\* lacks keys the rules read, another dict in between
C18_Witness ==
    /\ Len(rl_log) = 3
    /\ SameDictCalls(1, 3)
    /\ ~SameDictCalls(1, 2)
    /\ DOMAIN rl_log[1].features = {"amount", "user_1h_tx"}
    /\ rl_log[1].boost > 0
    /\ rl_log[2].boost # rl_log[1].boost

\* c (in tenths of a percent) is 100 * part / whole rounded to 1 decimal
IsPercentOf(c, part, whole) ==
    2 * Abs(c * whole - 1000 * part) <= whole

\* C19: in every decision record model_contribution and
\* rules_contribution are model_score / final_score * 100 and
\* rule_boost / final_score * 100 rounded to 1 decimal when
\* final_score > 0, and 100 and 0 when final_score = 0; the call returns
\* a record for every input.
C19_Contributions ==
    ad_pc = "returned" =>
        /\ {"model_contribution", "rules_contribution"}
               \subseteq DOMAIN ad_out
        /\ ad_final >= 0
        /\ ad_final > 0 =>
              /\ IsPercentOf(ad_out.model_contribution, ad_in.score_model,
                             ad_final)
              /\ IsPercentOf(ad_out.rules_contribution, ad_in.rule_boost,
                             ad_final)
        /\ ad_final = 0 =>
              /\ ad_out.model_contribution = 1000
              /\ ad_out.rules_contribution = 0

\* a call whose final score was clamped to 0 from a negative sum with a
\* positive rule boost
C19_Witness ==
    /\ ad_pc = "returned"
    /\ ad_final = 0
    /\ ad_in.rule_boost > 0
    /\ ad_in.score_model + ad_in.rule_boost < 0
    /\ ad_out.model_contribution = 1000

(***************************************************************************)
(* Properties of the prediction handlers                                   *)
(***************************************************************************)
\* C14: when a history query raises inside an aggregator, at its first
\* query or after some features were computed, the aggregator returns no
\* feature dict, neither zeros nor a partial one; the handler evaluates no
\* rule, builds no decision record, persists no row and answers 500.
C14_QueryFailureReachesCaller ==
    \A r \in Requests :
        reqs[r].failed > 0 =>
            /\ reqs[r].pc \in {"except", "done"}
            /\ reqs[r].pc = "done" => reqs[r].status = 500
            /\ reqs[r].agg = EmptyDict
            /\ reqs[r].features = NoFeatures
            /\ ~reqs[r].ruled
            /\ reqs[r].decision = NoRecord
            /\ reqs[r].row = 0
            /\ Cardinality(preds)
                  = Cardinality({o \in Requests : reqs[o].row # 0})

\* one request failed at the first query of its aggregator, the other at
\* the last one; both were answered 500 and the store is as it was
C14_Witness ==
    /\ \E r, o \in Requests :
          /\ reqs[r].failed = 2
          /\ reqs[o].failed = NSections(reqs[o].kind)
          /\ reqs[r].status = 500
          /\ reqs[o].status = 500
    /\ store = ApiStore
    /\ preds = {}

\* the aggregation of request r read the same table contents throughout
Stable(r) ==
    \A i \in DOMAIN reqs[r].reads : reqs[r].reads[i] = reqs[r].reads[1]

\* the dict engineer_*_features returns for the event of r on the store
\* contents db
EngineeredFor(r, db) ==
    IF reqs[r].kind = "review"
    THEN {engineer_review_features(reqs[r].payload, db, now).features}
    ELSE {engineer_tx_features(reqs[r].payload, db, now, order).features :
            order \in GroupOrders(db, PGet(reqs[r].payload, "user_id", 0))}

\* the rule outcome and the decision record of r are those of its own
\* feature dict, its model probability and the configured threshold
OwnOutcome(r) ==
    \A out \in {run_rules(reqs[r].kind, NRules(reqs[r].kind),
                          reqs[r].features)} :
        /\ reqs[r].boost = out.boost
        /\ reqs[r].reasons = out.reasons
        /\ reqs[r].decision
              = assemble_decision(reqs[r].proba, Threshold(reqs[r].kind),
                                  out.boost, out.reasons)

\* C16: requests in flight are independent: a step of one request leaves
\* the locals of every other request, the thresholds and the loaded
\* models unchanged; the feature dict of a request is the one of its own
\* event on the store contents its queries read, and its rule outcome and
\* decision record are those of that dict and the configured threshold.
C16_RequestsIndependent ==
    /\ [](\A r \in Requests :
             /\ (reqs[r].pc = "model" /\ Stable(r)) =>
                   reqs[r].features
                      \in EngineeredFor(r, ViewRows(reqs[r].kind,
                                                    reqs[r].reads[1], store))
             /\ reqs[r].pc = "persist" => OwnOutcome(r))
    /\ [][/\ config' = config
          /\ \A r \in Requests :
                reqs'[r] # reqs[r] =>
                    /\ \A o \in Requests \ {r} : reqs'[o] = reqs[o]
                    /\ reqs'[r].payload = reqs[r].payload
                    /\ reqs[r].pc # "aggregate" =>
                          reqs'[r].features = reqs[r].features
                    /\ reqs[r].pc # "model" =>
                          /\ reqs'[r].boost = reqs[r].boost
                          /\ reqs'[r].reasons = reqs[r].reasons
                          /\ reqs'[r].decision = reqs[r].decision]_vars

\* a transaction and a review request were aggregated side by side and
\* both reached their decision
C16_Witness ==
    /\ reqs[1].kind = "tx"
    /\ reqs[2].kind = "review"
    /\ reqs[1].pc = "persist"
    /\ reqs[2].pc = "persist"
    /\ reqs[1].decision # reqs[2].decision
    /\ Stable(1)
    /\ Stable(2)

VelocityReason == "High transaction velocity (5+ in 1 hour)"

\* the subject's committed transactions of the last hour in db
HourCount(db, uid) ==
    Cardinality({x \in db.transactions :
                    x.user_id = uid /\ now - x.created_at <= 1})

\* request r is a transaction of a subject whose history has been read
HistoryRead(r) ==
    /\ reqs[r].kind = "tx"
    /\ "user_id" \in DOMAIN reqs[r].payload
    /\ reqs[r].failed = 0
    /\ Len(reqs[r].reads) >= 2

\* C17: the velocity count of a request is the number of the subject's
\* transactions committed when the request reads its history, the events
\* of requests in flight excluded; the velocity rule is decided on that
\* count, and the history is read once (no lock, no retry), so two
\* concurrent requests of one subject can both stay at or below the
\* threshold while the store ends up with more than 5 in the hour.
C17_VelocityCountAtReadTime ==
    \A r \in Requests :
        HistoryRead(r) =>
            /\ "user_1h_tx" \in DOMAIN reqs[r].agg
            /\ reqs[r].agg.user_1h_tx
                  = Num(HourCount(ViewRows("tx", reqs[r].reads[2], store),
                                  reqs[r].payload.user_id))
            /\ Len(reqs[r].reads) <= NSections("tx")
            /\ reqs[r].ruled =>
                  ((\E k \in DOMAIN reqs[r].reasons :
                        reqs[r].reasons[k] = VelocityReason)
                   <=> HourCount(ViewRows("tx", reqs[r].reads[2], store),
                                 reqs[r].payload.user_id) > 5)

\* two requests of subject 3 both counted 5 and were answered 200 without
\* the velocity reason; the store holds 7 transactions of the hour
C17_Witness ==
    /\ \A r \in {1, 2} :
          /\ HistoryRead(r)
          /\ reqs[r].payload.user_id = 3
          /\ reqs[r].status = 200
          /\ reqs[r].features.user_1h_tx = Num(5)
          /\ \A k \in DOMAIN reqs[r].reasons :
                reqs[r].reasons[k] # VelocityReason
    /\ HourCount(store, 3) = 7

\* the body of request r lacks a required field of its endpoint
LacksRequired(r) ==
    \E f \in RequiredFields(reqs[r].kind) : f \notin DOMAIN reqs[r].payload

ValidCredential(headers) ==
    \/ headers.x_api_key = API_TOKEN
    \/ /\ Len(headers.authorization) >= 2
       /\ headers.authorization[1] = "Bearer"
       /\ headers.authorization[2].wellformed
       /\ headers.authorization[2].secret = JWT_SECRET
       /\ \/ headers.authorization[2].exp = NullTime
          \/ headers.authorization[2].exp > now

\* nothing of the handler body has run for request r
BodyNotRun(r) ==
    /\ reqs[r].queries = <<>>
    /\ reqs[r].reads = <<>>
    /\ reqs[r].agg = EmptyDict
    /\ ~reqs[r].ruled
    /\ reqs[r].decision = NoRecord
    /\ reqs[r].row = 0

RowsOf(r, k) ==
    {x \in (IF reqs[r].kind = "review" THEN store.reviews
            ELSE store.transactions) : x.id = k}

\* the stored predictions of the table of request r with the primary key k
PredsOf(r, k) ==
    {p \in preds : p.table = Table(reqs[r].kind) /\ p.id = k}

\* C22: a 200 response implies exactly one new row of that event was
\* committed, with the decision flag, the final score and the decision
\* record of the request; any other outcome (400, 401, 503, 500) leaves
\* no row of that request committed.
C22_RowIff200 ==
    \A r \in Requests :
        reqs[r].pc = "done" =>
            IF reqs[r].status = 200
            THEN /\ Cardinality(RowsOf(r, reqs[r].row)) = 1
                 /\ PredsOf(r, reqs[r].row)
                       = {[table |-> Table(reqs[r].kind),
                           id |-> reqs[r].row,
                           flag |-> reqs[r].decision.decision,
                           score |-> reqs[r].decision.score_final,
                           decision_json |-> reqs[r].decision]}
            ELSE /\ reqs[r].row = 0
                 /\ Cardinality(preds)
                       <= Cardinality({o \in Requests \ {r} :
                                         reqs[o].pc \in {"respond", "except",
                                                         "done"}})

\* the stored reviews of the subject of the event, the one with the
\* event's review_id left out when the event carries one
OtherReviews(payload, db) ==
    {r \in db.reviews :
        /\ "user_id" \in DOMAIN payload
        /\ r.user_id = payload.user_id
        /\ "review_id" \in DOMAIN payload => r.id # payload.review_id}

\* C23: rating_deviation is the absolute difference between the event's
\* rating and the average rating of the subject's stored reviews, the
\* review with the event's review_id excluded when the event carries one;
\* it is 0 when there is no such review or no subject id.
C23_RatingDeviation ==
    Returned("review") =>
        \A others \in {OtherReviews(fe_payload, store)} :
            fe_out.rating_deviation
               = Num(IF others = {} THEN 0
                     ELSE Abs(PGet(fe_payload, "rating", 3) * FeatOne
                              - Ratio(SumOver(others, "rating"),
                                      Cardinality(others))))

\* the event carries the id of a stored review of its subject, whose
\* rating is left out of the average: the ratings 2 and 1 remain, the
\* deviation of rating 5 is 3.5
C23_Witness ==
    /\ Returned("review")
    /\ {"review_id", "user_id"} \subseteq DOMAIN fe_payload
    /\ \E r \in store.reviews :
          r.id = fe_payload.review_id /\ r.user_id = fe_payload.user_id
    /\ Cardinality(OtherReviews(fe_payload, store)) = 2
    /\ fe_out.rating_deviation = Num(35 * (FeatOne \div 10))

\* C26: every decision record is self-consistent in its reported fields:
\* decision is true iff the reported score_final is >= the reported
\* threshold, and the reported confidence is the band of the distance
\* between the reported score_final and the threshold.
C26_RecordSelfConsistent ==
    (ad_pc = "returned" /\ ValidFusionInput) =>
        /\ ad_out.decision = (ad_out.score_final >= ad_out.threshold)
        /\ ad_out.confidence
              = confidence_of(ad_out.score_final, ad_out.threshold)

\* C29: channel_mismatch is a function of the event's channel and of the
\* channels of the subject's stored transactions: whatever row order the
\* per-channel counts come back in, the value is the same, also when two
\* channels tie for most frequent.
C29_ChannelMismatchOrderFree ==
    Returned("tx") =>
        \A order \in GroupOrders(store, PGet(fe_payload, "user_id", 0)) :
            tx_channel_features(fe_payload, store, order).f.channel_mismatch
               = fe_out.channel_mismatch

\* the rows the transactions table held before the first call
Preloaded == {x \in store.transactions : x \in RichTxs(x.created_at + 1)}

\* the call in progress is the n-th of its subject
CallNumber ==
    1 + Cardinality({x \in store.transactions :
                        x.user_id = fe_payload.user_id})

HasReason(reasons, reason) == \E k \in DOMAIN reasons : reasons[k] = reason

\* tx_rules has returned for the call in progress
SeqRuled == fe_pc = "returned" /\ rl_kind = "tx" /\ rl_pc = NRules("tx")

\* C25: a request reads the history before its own event is persisted:
\* when a subject without prior transactions sends requests one after
\* another within one hour, the n-th request computes user_1h_tx = n - 1,
\* and the velocity rule fires on the 7th request and every later one,
\* and on none before.
C25_NthRequestCountsNMinus1 ==
    (fe_pc = "returned" /\ Preloaded = {} /\ now - FirstSeen <= Hours1) =>
        /\ fe_out.user_1h_tx = Num(CallNumber - 1)
        /\ SeqRuled =>
              (HasReason(rl_reasons, VelocityReason) <=> CallNumber >= 7)

\* the 7th request, sent after the clock has moved on within the hour,
\* counts 6 and is the first with the velocity reason
C25_Witness ==
    /\ SeqRuled
    /\ Preloaded = {}
    /\ CallNumber = 7
    /\ now - FirstSeen = Hours1
    /\ fe_out.user_1h_tx = Num(6)
    /\ HasReason(rl_reasons, VelocityReason)

DeviceReason == "Frequent device changes (5+ in 7 days)"

\* the distinct device fingerprints of the subject's stored transactions
\* of the last 7 days
StoredDevices7d ==
    {x.device_fingerprint :
        x \in {y \in store.transactions :
                  /\ y.user_id = fe_payload.user_id
                  /\ y.created_at >= now - Days7}} \ {None}

\* C24: end to end (engineer_tx_features followed by tx_rules) the
\* device-churn boost is applied exactly when the subject's stored
\* transactions of the last 7 days use more than 5 distinct device
\* fingerprints, and dev_switch_7d is always that distinct-device count
\* minus 1 and never negative.
C24_DeviceChurnEndToEnd ==
    SeqRuled =>
        /\ HasReason(rl_reasons, DeviceReason)
              <=> Cardinality(StoredDevices7d) > 5
        /\ fe_out.dev_switch_7d = Num(Cardinality(StoredDevices7d) - 1)
        /\ fe_out.dev_switch_7d.num >= 0

GeoReason == "Transaction from unusual location"

\* the sum of the boosts of the transaction rules other than the geo rule
BoostWithoutGeo ==
    Boost(25) + Boost(20) + Boost(15) + Boost(12) + Boost(8) + Boost(18)
    + Boost(10)

\* the decision records predict_transaction can assemble from the rule
\* result at hand
SeqDecisions ==
    {assemble_decision(proba, TX_THR, rl_boost, rl_reasons) :
        proba \in {0, One \div 2, One}}

\* C28: on the /predict/transaction path the geo-mismatch rule never
\* fires: engineer_tx_features sets country_mismatch = 0 for every event
\* and history, no decision record of the endpoint contains the "Transaction
\* from unusual location" reason or its +0.15, and the largest rule boost
\* reachable is the sum of the other transaction rules.
C28_GeoRuleNeverFires ==
    /\ fe_pc = "returned" => fe_out.country_mismatch = Num(0)
    /\ (fe_pc = "returned" /\ rl_kind = "tx") =>
          /\ ~HasReason(rl_reasons, GeoReason)
          /\ rl_boost <= BoostWithoutGeo
    /\ SeqRuled =>
          \A decision \in SeqDecisions :
             /\ ~HasReason(decision.reasons, GeoReason)
             /\ decision.score_rules <= Round4(BoostWithoutGeo)

\* a night-time transaction of 75000 by a subject without creation time,
\* after eleven transactions in the hour from the same address and seven
\* devices: every rule but the geo rule has fired
C28_Witness ==
    /\ SeqRuled
    /\ Preloaded # {}
    /\ fe_out.country_mismatch = Num(0)
    /\ rl_boost = BoostWithoutGeo
    /\ Len(rl_reasons) = NTxRules - 1
    /\ ~HasReason(rl_reasons, GeoReason)

NewAccountReason == "New account with large transaction"

\* the subject of the call has no user record, or a record without
\* creation time
UnknownSubject ==
    \A u \in store.users :
       u.id = fe_payload.user_id => u.created_at = NullTime

\* the subject's stored transactions
SubjectHistory ==
    {x \in store.transactions : x.user_id = fe_payload.user_id}

\* C30: a subject that has no user record, or whose record has no creation
\* time, is always treated as a brand-new account: the aggregator sets
\* account_age_days = 0, so every transaction of such a subject with
\* amount > 15000 receives the new-account-large-transaction boost (+0.18)
\* and its reason, whatever the subject's transaction history is.
C30_UnknownSubjectIsNewAccount ==
    /\ (fe_pc = "returned" /\ UnknownSubject) =>
          fe_out.account_age_days = Num(0)
    /\ (SeqRuled /\ UnknownSubject
           /\ fe_payload.amount > 15000 * AmountOne) =>
          /\ HasReason(rl_reasons, NewAccountReason)
          /\ rl_boost >= Boost(18)
          /\ \A before \in {run_rules("tx", 6, rl_features)} :
                \A after \in {run_rules("tx", 7, rl_features)} :
                   after.boost = before.boost + Boost(18)

\* a subject without user record, with transactions already stored, sends
\* 16000 and gets the reason
C30_Witness ==
    /\ SeqRuled
    /\ \A u \in store.users : u.id # fe_payload.user_id
    /\ Cardinality(SubjectHistory) >= 3
    /\ fe_payload.amount = 16000 * AmountOne
    /\ fe_out.account_age_days = Num(0)
    /\ HasReason(rl_reasons, NewAccountReason)

\* C27: in every feature vector the same-subject windowed counts are
\* nested, user_1h_tx <= user_24h_tx <= user_7d_tx for transactions and
\* user_1h_review_count <= user_7d_review_count <= user_30d_review_count
\* for reviews, also when other requests commit new events of that subject
\* between the aggregator's successive window queries.
C27_WindowCountsNested ==
    fe_pc = "returned" =>
        IF fe_kind = "review"
        THEN /\ fe_out.user_1h_review_count.num
                  <= fe_out.user_7d_review_count.num
             /\ fe_out.user_7d_review_count.num
                  <= fe_out.user_30d_review_count.num
        ELSE /\ fe_out.user_1h_tx.num <= fe_out.user_24h_tx.num
             /\ fe_out.user_24h_tx.num <= fe_out.user_7d_tx.num

====
